---- MODULE Spec2Model ----
(***************************************************************************)
(* Model of the StockEarningAnalyzer core:                                 *)
(*   - DataFetcher (src/src/api/data_fetcher.py): the per-symbol series    *)
(*     cache, its merge policy and the refresh path of fetch_ohlcv;        *)
(*   - EarningsData (src/src/api/earnings_data.py): the trading-day        *)
(*     calendar resolver and the analysis-window bundle;                   *)
(*   - Analyzer (src/src/logic/analyzer.py): frozen-baseline RVOL,         *)
(*     accumulation zone, reference high, drawdown and returns.            *)
(*                                                                         *)
(* Calendar days are integers (1 = the earliest day of interest); a        *)
(* missing date (Python None) is NoneDate.  Prices and volumes are         *)
(* integers; a missing number (None / NaN) is NaN.  A DataFrame is a       *)
(* record [none, rows, cols]: none is TRUE for Python None, rows is the    *)
(* sequence of rows in index order and cols the set of non-OHLCV columns.  *)
(***************************************************************************)
EXTENDS Integers, Sequences, FiniteSets, TLC

VARIABLES
    cache,          \* the persisted record data/<symbol>_ohlcv.json
    last,           \* what the last fetch_ohlcv call was given, did and returned
    serA, serB,     \* two series handed to _merge_data
    stored,         \* the series built up by successive merges
    trace,          \* which series were merged so far, in order
    snaps,          \* the value of stored after each merge
    lastMerge,      \* arguments and result of the last _merge_data call
    trading_days,   \* the calendar handed to the resolver, in the caller's order
    earnings_date,  \* the anchor date
    lastResolve,    \* offset and result of the last get_trading_day_offset call
    df,             \* the rows of the frame handed to the analyzer
    window_set,     \* the window set handed to the analyzer
    result,         \* what analyze_earnings_event computed and returned
    args,           \* the arguments of a call of one of the pure helpers
    ret,            \* what that call returned
    stock_details,  \* configs/stockSymbolDetails.json as loaded at construction
    lookup,         \* the last metadata or series request and its outcome
    procs,          \* the callers running fetch_ohlcv at once, each with its locals
    writes          \* the frames written to the persisted record, in order

vars == <<cache, last, serA, serB, stored, trace, snaps, lastMerge,
          trading_days, earnings_date, lastResolve, df, window_set, result,
          args, ret, stock_details, lookup, procs, writes>>

cacheVars == <<cache, last>>
mergeVars == <<serA, serB, stored, trace, snaps, lastMerge>>
calVars == <<trading_days, earnings_date, lastResolve>>
anaVars == <<df, window_set, result>>
fnVars == <<args, ret>>
cfgVars == <<stock_details, lookup>>
raceVars == <<procs, writes>>

----------------------------------------------------------------------------
(* Bounds of the model *)

MaxDate == 3        \* calendar days 1..MaxDate
MaxRows == 2        \* rows in a series handed to the merge / returned by the provider
MaxMerges == 3      \* merges applied in a row
MaxCalDate == 4     \* trading days fall on days 2..MaxCalDate + 1
MaxCalLen == 3      \* entries of a trading-day calendar
MaxOffset == 4      \* offsets -MaxOffset..MaxOffset are requested
MaxBars == 24       \* rows of the frame handed to the analyzer
ScenarioBars == 40  \* rows of the frame of the end-to-end scenario
MaxSeriesLen == 4   \* samples of a series handed to the percentile rank
MaxValue == 3       \* samples are 0..MaxValue or undefined
MaxWindow == 3      \* rolling windows of 1..MaxWindow samples

NoneDate == 0       \* Python None where a date is expected

Dates == 1..MaxDate

----------------------------------------------------------------------------
(* Data frames *)

\* src/src/config/constants.py REQUIRED_INDICATORS
REQUIRED_INDICATORS ==
    {"RSI_14", "RSI_Percentile", "ATR_14", "ATR_Percentile",
     "BB_Lower", "BB_Upper", "BB_Width", "Volume_Percentile",
     "SMA_20", "SMA_50", "SMA_100", "SMA_200",
     "Volume_SMA_20", "Volume_SMA_50",
     "Distance_SMA_50", "Distance_SMA_100", "Distance_SMA_200"}

\* The columns a cache written by a release that only stored RSI carries.
LegacyCols == {"RSI_14"}

NoDF == [none |-> TRUE, rows |-> <<>>, cols |-> {}]

DF(rows, cols) == [none |-> FALSE, rows |-> rows, cols |-> cols]

\* The (open, high, low, close, volume) tuples a bar can carry.  The cache never
\* looks into them, so two distinguishable tuples stand for all.
OhlcvTuples == {"ohlcv_1", "ohlcv_2"}

\* One daily bar: its calendar date and its (open, high, low, close, volume) tuple.
Bars == [date : Dates, ohlcv : OhlcvTuples]

RECURSIVE SeqsUpTo(_, _)
SeqsUpTo(S, n) ==
    IF n = 0 THEN {<<>>}
    ELSE LET shorter == SeqsUpTo(S, n - 1)
         IN shorter \cup {Append(s, x) : s \in {t \in shorter : Len(t) = n - 1}, x \in S}

DatesOf(rows) == {rows[i].date : i \in 1..Len(rows)}

IsSorted(rows) == \A i \in 1..(Len(rows) - 1) : rows[i].date <= rows[i + 1].date

IsDateUnique(rows) ==
    \A i, j \in 1..Len(rows) : rows[i].date = rows[j].date => i = j

\* DataFrame.empty
IsEmpty(frame) == frame.rows = <<>>

\* df.sort_values('date').reset_index(drop=True): rows in ascending date order,
\* rows of equal date keeping their relative order.
SortByDate(rows) ==
    LET n == Len(rows)
        rank == [i \in 1..n |->
                    Cardinality({j \in 1..n : \/ rows[j].date < rows[i].date
                                              \/ rows[j].date = rows[i].date /\ j < i}) + 1]
    IN IF IsSorted(rows) THEN rows
       ELSE [k \in 1..n |-> rows[CHOOSE i \in 1..n : rank[i] = k]]

\* A mutant of the de-duplication: the first row of a date survives.
RECURSIVE DropDuplicatesKeepFirst(_)
DropDuplicatesKeepFirst(rows) ==
    IF rows = <<>> THEN <<>>
    ELSE LET n == Len(rows)
             rest == DropDuplicatesKeepFirst(SubSeq(rows, 1, n - 1))
         IN IF \E j \in 1..(n - 1) : rows[j].date = rows[n].date
            THEN rest
            ELSE Append(rest, rows[n])

\* combined.drop_duplicates(subset=['date'], keep='last'): a row survives when no
\* later row carries its date.
DropDuplicatesKeepLast(rows) ==
    LET n == Len(rows)
        indexed == [i \in 1..n |-> [index |-> i, row |-> rows[i]]]
        kept == SelectSeq(indexed,
                          LAMBDA r : \A j \in (r.index + 1)..n : rows[j].date # r.row.date)
    IN [k \in 1..Len(kept) |-> kept[k].row]

\* A mutant of the merge: the two frames are concatenated and sorted, and rows of
\* equal date are all kept.
merge_data_append(existing, new) ==
    IF existing.none \/ IsEmpty(existing) THEN new
    ELSE IF new.none \/ IsEmpty(new) THEN existing
    ELSE DF(SortByDate(existing.rows \o new.rows), existing.cols \cup new.cols)

\* DataFetcher._merge_data
merge_data(existing, new) ==
    IF existing.none \/ IsEmpty(existing) THEN new
    ELSE IF new.none \/ IsEmpty(new) THEN existing
    ELSE DF(SortByDate(DropDuplicatesKeepLast(existing.rows \o new.rows)),
            existing.cols \cup new.cols)

----------------------------------------------------------------------------
(* The series cache: DataFetcher.fetch_ohlcv *)

\* DataFetcher._load_cached_data: None when no record exists, else the record's
\* rows sorted by date.
load_cached_data(file) ==
    IF file.none THEN NoDF ELSE DF(SortByDate(file.rows), file.cols)

\* DataFetcher._save_cached_data: the record is replaced by the frame, dates
\* written as calendar days (the model's dates are calendar days already).
save_cached_data(frame) == DF(frame.rows, frame.cols)

\* A mutant of the write: the frame is merged into the record found on disk.
write_record_merging(file, frame) == save_cached_data(merge_data(file, frame))

\* DataFetcher._save_cached_data, lines 147-148: open(cache_path, 'w') truncates
\* the record, whatever it holds by now, and the frame is written in its place.
write_record(file, frame) == save_cached_data(frame)

\* DataFetcher._calculate_indicators, as far as the cache logic sees it: every
\* required indicator column is (re)computed over the whole frame.  The
\* operator also reports that a computation took place.
calculate_indicators(frame) ==
    IF frame.none \/ IsEmpty(frame) THEN frame
    ELSE DF(frame.rows, frame.cols \cup REQUIRED_INDICATORS)

\* A mutant of the indicator test: the test is inverted.
has_all_indicators_inverted(frame) == ~(REQUIRED_INDICATORS \subseteq frame.cols)

\* all(col in cached_df.columns for col in REQUIRED_INDICATORS)
has_all_indicators(frame) == REQUIRED_INDICATORS \subseteq frame.cols

FilterRows(rows, from_date, to_date) ==
    SelectSeq(rows, LAMBDA r : r.date >= from_date /\ r.date <= to_date)

\* DataFetcher._filter_date_range
filter_date_range(frame, from_date, to_date) ==
    DF(FilterRows(frame.rows, from_date, to_date), frame.cols)

MinDate(rows) == CHOOSE d \in DatesOf(rows) : \A e \in DatesOf(rows) : d <= e

MaxDateOf(rows) == CHOOSE d \in DatesOf(rows) : \A e \in DatesOf(rows) : d >= e

\* A mutant of the coverage test: the comparisons are strict.
CoversStrict(cached_df, from_date, to_date) ==
    MinDate(cached_df.rows) < from_date /\ MaxDateOf(cached_df.rows) > to_date

\* cache_start.date() <= from_date.date() and cache_end.date() >= to_date.date()
Covers(cached_df, from_date, to_date) ==
    MinDate(cached_df.rows) <= from_date /\ MaxDateOf(cached_df.rows) >= to_date

\* What the provider collaborator does when asked: the client is not
\* authenticated, the symbol has no instrument token, the request raises, or
\* the request returns a (possibly empty) list of daily bars.
ProviderKinds == {"unauthenticated", "no_token", "error", "ok"}

\* DataFetcher._fetch_from_api: None on any failure and on an empty list, else
\* the returned bars sorted by date.
fetch_from_api(provider) ==
    IF provider.kind # "ok" \/ provider.data = <<>> THEN NoDF
    ELSE DF(SortByDate(provider.data), {})

\* A mutant of fetch_ohlcv: a call whose provider yields nothing returns None
\* even when a cache exists.
fetch_ohlcv_no_fallback(file, from_date, to_date, force_refresh, provider) ==
    LET cached_df == load_cached_data(file)
        new_df == fetch_from_api(provider)
        merged_df == calculate_indicators(merge_data(cached_df, new_df))
    IN IF ~force_refresh /\ ~cached_df.none /\ ~IsEmpty(cached_df)
          /\ Covers(cached_df, from_date, to_date)
       THEN [file |-> file, asked |-> FALSE, computed |-> FALSE, wrote |-> FALSE,
             ret |-> filter_date_range(cached_df, from_date, to_date)]
       ELSE IF new_df.none
       THEN [file |-> file, asked |-> TRUE, computed |-> FALSE, wrote |-> FALSE,
             ret |-> NoDF]
       ELSE [file |-> save_cached_data(merged_df), asked |-> TRUE, computed |-> TRUE,
             wrote |-> TRUE, ret |-> filter_date_range(merged_df, from_date, to_date)]

\* A mutant of fetch_ohlcv: on a covering cache with incomplete indicators the
\* indicators are computed on the requested range only, and that is saved.
fetch_ohlcv_range_only(file, from_date, to_date, force_refresh, provider) ==
    LET cached_df == load_cached_data(file)
        new_df == fetch_from_api(provider)
        merged_df == calculate_indicators(merge_data(cached_df, new_df))
        recomputed ==
            calculate_indicators(filter_date_range(cached_df, from_date, to_date))
    IN IF ~force_refresh /\ ~cached_df.none /\ ~IsEmpty(cached_df)
          /\ Covers(cached_df, from_date, to_date)
       THEN IF ~has_all_indicators(cached_df)
            THEN [file |-> save_cached_data(recomputed), asked |-> FALSE,
                  computed |-> TRUE, wrote |-> TRUE, ret |-> recomputed]
            ELSE [file |-> file, asked |-> FALSE, computed |-> FALSE, wrote |-> FALSE,
                  ret |-> filter_date_range(cached_df, from_date, to_date)]
       ELSE IF new_df.none /\ cached_df.none
       THEN [file |-> file, asked |-> TRUE, computed |-> FALSE, wrote |-> FALSE,
             ret |-> NoDF]
       ELSE [file |-> save_cached_data(merged_df), asked |-> TRUE, computed |-> TRUE,
             wrote |-> TRUE, ret |-> filter_date_range(merged_df, from_date, to_date)]

\* DataFetcher.fetch_ohlcv, from the cache load to the return: the persisted
\* record after the call, whether _fetch_from_api was called, whether the
\* indicators were computed, whether the record was written, and the value
\* returned.
fetch_ohlcv(file, from_date, to_date, force_refresh, provider) ==
    LET cached_df == load_cached_data(file)
        new_df == fetch_from_api(provider)
        merged_df == calculate_indicators(merge_data(cached_df, new_df))
        recomputed == calculate_indicators(cached_df)
    IN IF ~force_refresh /\ ~cached_df.none /\ ~IsEmpty(cached_df)
          /\ Covers(cached_df, from_date, to_date)
       THEN IF ~has_all_indicators(cached_df)
            THEN [file |-> save_cached_data(recomputed), asked |-> FALSE,
                  computed |-> TRUE, wrote |-> TRUE,
                  ret |-> filter_date_range(recomputed, from_date, to_date)]
            ELSE [file |-> file, asked |-> FALSE, computed |-> FALSE, wrote |-> FALSE,
                  ret |-> filter_date_range(cached_df, from_date, to_date)]
       ELSE IF new_df.none /\ cached_df.none
       THEN [file |-> file, asked |-> TRUE, computed |-> FALSE, wrote |-> FALSE,
             ret |-> NoDF]
       ELSE [file |-> save_cached_data(merged_df), asked |-> TRUE, computed |-> TRUE,
             wrote |-> TRUE, ret |-> filter_date_range(merged_df, from_date, to_date)]

\* src/src/config/constants.py
INDICATOR_BUFFER_DAYS == 100
SMA_MAJOR_PERIOD == 200

\* A mutant of the buffer: the 50 further days are left out.
buffer_start_short(analysis_start) == analysis_start - INDICATOR_BUFFER_DAYS

\* DataFetcher.fetch_with_buffer, line 401:
\* analysis_start - timedelta(days=INDICATOR_BUFFER_DAYS + 50)
buffer_start(analysis_start) == analysis_start - (INDICATOR_BUFFER_DAYS + 50)

\* DataFetcher.fetch_with_buffer
fetch_with_buffer(file, analysis_start, analysis_end, provider) ==
    fetch_ohlcv(file, buffer_start(analysis_start), analysis_end, FALSE, provider)

\* ta.sma(df['close'], length) in DataFetcher._calculate_indicators: the rows
\* that carry a value.  The average of row i is taken over rows i - length + 1
\* .. i; the first length - 1 rows carry NaN.
sma_defined(rows, length) == [i \in 1..Len(rows) |-> i >= length]

----------------------------------------------------------------------------
(* The calendar resolver: EarningsData.get_trading_day_offset *)

NoneIdx == -1       \* Python None where a list index is expected

\* sorted(trading_days)
SortDays(days) ==
    LET n == Len(days)
        rank == [i \in 1..n |->
                    Cardinality({j \in 1..n : \/ days[j] < days[i]
                                              \/ days[j] = days[i] /\ j < i}) + 1]
    IN IF \A i \in 1..(n - 1) : days[i] <= days[i + 1] THEN days
       ELSE [k \in 1..n |-> days[CHOOSE i \in 1..n : rank[i] = k]]

\* A mutant of the index search: an anchor between two trading days snaps back
\* to the earlier one.
find_nearest_trading_day_index_backward(target_date, days) ==
    IF days = <<>> THEN NoneIdx
    ELSE IF target_date < days[1] THEN 0
    ELSE IF target_date > days[Len(days)] THEN Len(days) - 1
    ELSE (CHOOSE i \in 1..Len(days) :
             /\ days[i] <= target_date
             /\ \A j \in (i + 1)..Len(days) : days[j] > target_date) - 1

\* EarningsData._find_nearest_trading_day_index; indices count from 0 as in the
\* source, so the day at index i is days[i + 1].
find_nearest_trading_day_index(target_date, days) ==
    IF days = <<>> THEN NoneIdx
    ELSE IF target_date < days[1] THEN 0
    ELSE IF target_date > days[Len(days)] THEN Len(days) - 1
    ELSE IF \E i \in 1..Len(days) : days[i] >= target_date
         THEN (CHOOSE i \in 1..Len(days) :
                  /\ days[i] >= target_date
                  /\ \A j \in 1..(i - 1) : days[j] < target_date) - 1
         ELSE Len(days) - 1

\* A mutant of the resolver: the calendar is used in the caller's order.
get_trading_day_offset_unsorted(date, offset, days) ==
    LET earnings_idx == find_nearest_trading_day_index(date, days)
        target_idx == earnings_idx + offset
    IN IF days = <<>> THEN NoneDate
       ELSE IF earnings_idx = NoneIdx THEN NoneDate
       ELSE IF target_idx < 0 THEN days[1]
       ELSE IF target_idx >= Len(days) THEN days[Len(days)]
       ELSE days[target_idx + 1]

\* A mutant of the resolver: an offset outside the calendar yields None, as in
\* the revision that did not clamp.
get_trading_day_offset_strict(date, offset, days) ==
    LET trading_days_sorted == SortDays(days)
        earnings_idx == find_nearest_trading_day_index(date, trading_days_sorted)
        target_idx == earnings_idx + offset
    IN IF trading_days_sorted = <<>> THEN NoneDate
       ELSE IF earnings_idx = NoneIdx THEN NoneDate
       ELSE IF target_idx < 0 \/ target_idx >= Len(trading_days_sorted) THEN NoneDate
       ELSE trading_days_sorted[target_idx + 1]

\* EarningsData.get_trading_day_offset
get_trading_day_offset(date, offset, days) ==
    LET trading_days_sorted == SortDays(days)
        earnings_idx == find_nearest_trading_day_index(date, trading_days_sorted)
        target_idx == earnings_idx + offset
    IN IF trading_days_sorted = <<>> THEN NoneDate
       ELSE IF earnings_idx = NoneIdx THEN NoneDate
       ELSE IF target_idx < 0 THEN trading_days_sorted[1]
       ELSE IF target_idx >= Len(trading_days_sorted)
            THEN trading_days_sorted[Len(trading_days_sorted)]
       ELSE trading_days_sorted[target_idx + 1]

----------------------------------------------------------------------------
(* Numbers.  Prices, volumes and moving averages are integers, NaN a missing *)
(* one.  Ratios and percentages are exact fractions [n, d] in lowest terms   *)
(* with d > 0; NaNQ is a float NaN, InfQ a float infinity, NoneQ Python None. *)

NaN == -1

NaNQ == [n |-> 0, d |-> 0]

InfQ == [n |-> 1, d |-> 0]

NoneQ == [n |-> 0, d |-> -1]

Abs(x) == IF x < 0 THEN 0 - x ELSE x

RECURSIVE GCD(_, _)
GCD(a, b) == IF b = 0 THEN a ELSE GCD(b, a % b)

\* The fraction n / d (d # 0) in lowest terms.
Q(n, d) ==
    LET g == GCD(Abs(n), Abs(d))
        sign == IF d < 0 THEN -1 ELSE 1
    IN [n |-> sign * (n \div g), d |-> sign * (d \div g)]

IsNumber(q) == q.d > 0

\* pandas division of two columns' values: NaN propagates, x / 0 is infinite
\* for x > 0 and NaN for x = 0.
Div(a, b) ==
    IF a = NaN \/ b = NaN THEN NaNQ
    ELSE IF b = 0 THEN (IF a = 0 THEN NaNQ ELSE InfQ)
    ELSE Q(a, b)

Less(p, q) == p.n * q.d < q.n * p.d

\* A mutant of the percentage change: the change is left as a fraction.
PctChangeFraction(exit, entry) ==
    Q((exit.n * entry.d - entry.n * exit.d) * entry.d, exit.d * entry.d * entry.n)

\* (exit - entry) / entry * 100 on two numbers, entry # 0
PctChange(exit, entry) ==
    Q((exit.n * entry.d - entry.n * exit.d) * entry.d * 100, exit.d * entry.d * entry.n)

\* Python truth value of an Optional[float]: None and 0.0 are false.
Truthy(q) == q # NoneQ /\ ~(q.n = 0 /\ q.d > 0)

\* The valid samples of the window of up to window samples ending at row i.
ValidWindow(series, window, i) ==
    {j \in (IF i - window + 1 > 1 THEN i - window + 1 ELSE 1)..i : series[j] # NaN}

\* A mutant of the percentile rank: every sample up to the current one is
\* ranked against, not only the trailing window.
calculate_percentile_expanding(series, window) ==
    [i \in 1..Len(series) |->
        IF series[i] = NaN THEN NaNQ
        ELSE LET valid == {j \in 1..i : series[j] # NaN}
                 min_value == CHOOSE x \in {series[j] : j \in valid} :
                                  \A j \in valid : x <= series[j]
                 max_value == CHOOSE x \in {series[j] : j \in valid} :
                                  \A j \in valid : x >= series[j]
             IN IF Cardinality(valid) < 2 THEN NaNQ
                ELSE IF max_value - min_value > 0
                THEN Q((series[i] - min_value) * 100, max_value - min_value)
                ELSE Q(50, 1)]

\* DataFetcher._calculate_percentile
calculate_percentile(series, window) ==
    [i \in 1..Len(series) |->
        IF series[i] = NaN THEN NaNQ
        ELSE LET window_data == ValidWindow(series, window, i)
                 min_value == CHOOSE x \in {series[j] : j \in window_data} :
                                  \A j \in window_data : x <= series[j]
                 max_value == CHOOSE x \in {series[j] : j \in window_data} :
                                  \A j \in window_data : x >= series[j]
             IN IF Cardinality(window_data) < 2 THEN NaNQ
                ELSE IF max_value - min_value > 0
                THEN Q((series[i] - min_value) * 100, max_value - min_value)
                ELSE Q(50, 1)]

----------------------------------------------------------------------------
(* The event analyzer: Analyzer.analyze_earnings_event *)

\* src/src/config/constants.py
OBSERVATION_START_OFFSET == -20
ACCUMULATION_START_OFFSET == -10
ACCUMULATION_END_OFFSET == -2
RVOL_BASELINE_OFFSET == -11

\* The forward offsets get_analysis_windows resolves (t_plus_0 .. t_plus_20).
ForwardOffsets == (0..6) \cup {10, 20}

\* The exit-price policies of _calculate_returns.
PriceKinds == {"close", "low", "high", "typical"}

FrameDates(rows) == [i \in 1..Len(rows) |-> rows[i].date]

\* A mutant of the window set: the observation ends on the last entry of the
\* calendar as the caller lists it.
get_analysis_windows_last_listed(date, days) ==
    [earnings_date |-> date,
     obs_start |-> get_trading_day_offset(date, OBSERVATION_START_OFFSET, days),
     obs_end |-> IF days # <<>> THEN days[Len(days)] ELSE NoneDate,
     acc_start |-> get_trading_day_offset(date, ACCUMULATION_START_OFFSET, days),
     acc_end |-> get_trading_day_offset(date, ACCUMULATION_END_OFFSET, days),
     t_minus_1 |-> get_trading_day_offset(date, -1, days),
     t_plus |-> [k \in ForwardOffsets |-> get_trading_day_offset(date, k, days)]]

\* EarningsData.get_analysis_windows
get_analysis_windows(date, days) ==
    LET trading_days_sorted == SortDays(days)
        current_date == IF trading_days_sorted # <<>>
                        THEN trading_days_sorted[Len(trading_days_sorted)]
                        ELSE NoneDate
    IN [earnings_date |-> date,
        obs_start |-> get_trading_day_offset(date, OBSERVATION_START_OFFSET, days),
        obs_end |-> current_date,
        acc_start |-> get_trading_day_offset(date, ACCUMULATION_START_OFFSET, days),
        acc_end |-> get_trading_day_offset(date, ACCUMULATION_END_OFFSET, days),
        t_minus_1 |-> get_trading_day_offset(date, -1, days),
        t_plus |-> [k \in ForwardOffsets |-> get_trading_day_offset(date, k, days)]]

\* A mutant of the baseline row: an earnings date later than every row takes
\* the last row for the anchor row, as the calendar resolver does.
BaselineRowClamped(rows, date) ==
    IF rows = <<>> THEN 0
    ELSE LET anchor == IF \E i \in 1..Len(rows) : rows[i].date >= date
                       THEN CHOOSE i \in 1..Len(rows) :
                               /\ rows[i].date >= date
                               /\ \A j \in 1..(i - 1) : rows[j].date < date
                       ELSE Len(rows)
         IN IF anchor - 1 >= Abs(RVOL_BASELINE_OFFSET)
            THEN anchor + RVOL_BASELINE_OFFSET ELSE 0

\* Analyzer._calculate_indicators, lines 101-110: the row (counted from 1) whose
\* Volume SMA is frozen, 0 when there is none.  The anchor row is the first row
\* dated on or after the earnings date; the baseline row lies 11 rows before it.
BaselineRow(rows, date) ==
    IF \E i \in 1..Len(rows) : rows[i].date >= date
    THEN LET anchor == CHOOSE i \in 1..Len(rows) :
                          /\ rows[i].date >= date
                          /\ \A j \in 1..(i - 1) : rows[j].date < date
             idx == anchor - 1
         IN IF idx >= Abs(RVOL_BASELINE_OFFSET) THEN anchor + RVOL_BASELINE_OFFSET ELSE 0
    ELSE 0

\* A mutant of the frozen ratio: the guard on the baseline is dropped and every
\* row after the baseline row is divided by the baseline.
FrozenRatioUnguarded(rows, i, t11, sma) ==
    IF t11 # 0 /\ i > t11
    THEN Div(rows[i].volume, sma[t11])
    ELSE Div(rows[i].volume, sma[i])

\* Analyzer._calculate_indicators, lines 118-137: the relative volume of row i
\* against the moving-average column sma, with the baseline row t11 (0: none).
FrozenRatio(rows, i, t11, sma) ==
    IF t11 # 0 /\ i > t11 /\ sma[t11] # NaN /\ sma[t11] > 0
    THEN Div(rows[i].volume, sma[t11])
    ELSE Div(rows[i].volume, sma[i])

\* Analyzer._calculate_indicators: the private copy of the frame with the
\* rvol_20, rvol_50 and rsi columns added.  The frame is taken to carry the
\* Volume_SMA_20, Volume_SMA_50 and RSI_14 columns, as every frame returned by
\* fetch_ohlcv does.
analyzer_calculate_indicators(rows, windows) ==
    LET t_minus_11_idx == BaselineRow(rows, windows.earnings_date)
        sma20 == [i \in 1..Len(rows) |-> rows[i].Volume_SMA_20]
        sma50 == [i \in 1..Len(rows) |-> rows[i].Volume_SMA_50]
    IN [i \in 1..Len(rows) |->
           [date |-> rows[i].date, low |-> rows[i].low, high |-> rows[i].high,
            close |-> rows[i].close, volume |-> rows[i].volume,
            Volume_SMA_20 |-> rows[i].Volume_SMA_20,
            Volume_SMA_50 |-> rows[i].Volume_SMA_50,
            RSI_14 |-> rows[i].RSI_14,
            rvol_20 |-> FrozenRatio(rows, i, t_minus_11_idx, sma20),
            rvol_50 |-> FrozenRatio(rows, i, t_minus_11_idx, sma50),
            rsi |-> rows[i].RSI_14]]

\* A mutant of the copy: the columns are added to the caller's frame itself.
caller_frame_after_inplace(rows, windows) == analyzer_calculate_indicators(rows, windows)

\* Analyzer._calculate_indicators, line 99, and _find_accumulation_zone, line
\* 186: the columns are added to copies (df.copy(), df[mask].copy()), so the
\* frame the caller holds has after the call the rows it had before.
caller_frame_after(rows, windows) == rows

\* (Low + High + Close) / 3
TypicalPrice(row) == Q(row.low + row.high + row.close, 3)

\* A mutant of the trough metric: the low alone, as the module docstring has it.
TroughPriceLow(row) == Q(row.low, 1)

\* The metric whose minimum over the accumulation window is the accumulation price.
TroughPrice(row) == TypicalPrice(row)

\* A mutant of the count: the day itself is left out.
calculate_trading_days_between_exclusive(start_date, end_date, rows) ==
    Cardinality({i \in 1..Len(rows) : rows[i].date > start_date /\ rows[i].date < end_date})

\* Analyzer._calculate_trading_days_between
calculate_trading_days_between(start_date, end_date, rows) ==
    Cardinality({i \in 1..Len(rows) : rows[i].date >= start_date /\ rows[i].date < end_date})

\* A mutant of the window mask: the bars up to the earnings date are included.
InAccumulationWindowToEarnings(row, windows) ==
    row.date >= windows.acc_start /\ row.date <= windows.earnings_date

\* Analyzer._find_accumulation_zone, line 185: the window mask.
InAccumulationWindow(row, windows) ==
    row.date >= windows.acc_start /\ row.date <= windows.acc_end

\* Analyzer._find_accumulation_zone
find_accumulation_zone(rows, windows) ==
    IF windows.acc_start = NoneDate \/ windows.acc_end = NoneDate
    THEN [price |-> NoneQ, days |-> <<>>]
    ELSE LET acc_window == SelectSeq(rows, LAMBDA r : InAccumulationWindow(r, windows))
         IN IF acc_window = <<>>
            THEN [price |-> NoneQ, days |-> <<>>]
            ELSE LET accumulation_price ==
                         CHOOSE p \in {TroughPrice(acc_window[i]) : i \in 1..Len(acc_window)} :
                             \A i \in 1..Len(acc_window) : ~Less(TroughPrice(acc_window[i]), p)
                     acc_days_df == SelectSeq(acc_window,
                                              LAMBDA r : TroughPrice(r) = accumulation_price)
                 IN [price |-> accumulation_price,
                     days |-> [k \in 1..Len(acc_days_df) |->
                                 [date |-> acc_days_df[k].date,
                                  low |-> acc_days_df[k].low,
                                  high |-> acc_days_df[k].high,
                                  close |-> acc_days_df[k].close,
                                  typical_price |-> TroughPrice(acc_days_df[k]),
                                  rvol_20 |-> acc_days_df[k].rvol_20,
                                  rvol_50 |-> acc_days_df[k].rvol_50,
                                  rsi |-> acc_days_df[k].rsi,
                                  days_before_earnings |->
                                      calculate_trading_days_between(
                                          acc_days_df[k].date, windows.earnings_date, rows)]]]

NoReferenceHigh == [price |-> NoneQ, date |-> NoneDate]

\* A mutant of the reference-high window: the accumulation day itself is included.
InReferenceWindowClosed(row, obs_start, accumulation_date) ==
    row.date >= obs_start /\ row.date <= accumulation_date

\* Analyzer._calculate_reference_high, lines 242-245: the window mask.
InReferenceWindow(row, obs_start, accumulation_date) ==
    row.date >= obs_start /\ row.date < accumulation_date

\* Analyzer._calculate_reference_high; idxmax takes the first row of the
\* greatest high.
calculate_reference_high(rows, windows, accumulation_date) ==
    IF windows.obs_start = NoneDate THEN NoReferenceHigh
    ELSE LET ref_window == SelectSeq(rows, LAMBDA r :
                               InReferenceWindow(r, windows.obs_start, accumulation_date))
         IN IF ref_window = <<>> THEN NoReferenceHigh
            ELSE LET max_idx == CHOOSE i \in 1..Len(ref_window) :
                                   /\ \A j \in 1..Len(ref_window) :
                                        ref_window[j].high <= ref_window[i].high
                                   /\ \A j \in 1..(i - 1) :
                                        ref_window[j].high < ref_window[i].high
                 IN [price |-> Q(ref_window[max_idx].high, 1),
                     date |-> ref_window[max_idx].date]

\* A mutant of the drawdown: the fall from the reference high is reported as a
\* positive percentage.
calculate_drawdown_unsigned(reference_high, accumulation_price) ==
    IF reference_high = NoneQ \/ accumulation_price = NoneQ
       \/ (reference_high.n = 0 /\ reference_high.d > 0)
    THEN NoneQ
    ELSE LET p == PctChange(accumulation_price, reference_high)
         IN [n |-> 0 - p.n, d |-> p.d]

\* Analyzer._calculate_drawdown
calculate_drawdown(reference_high, accumulation_price) ==
    IF reference_high = NoneQ \/ accumulation_price = NoneQ
       \/ (reference_high.n = 0 /\ reference_high.d > 0)
    THEN NoneQ
    ELSE PctChange(accumulation_price, reference_high)

\* Analyzer._get_close_price / _get_low_price / _get_high_price: the column's
\* value in the first row dated target_date, None when there is none.
get_price(rows, target_date, column) ==
    IF target_date = NoneDate THEN NoneQ
    ELSE IF ~\E i \in 1..Len(rows) : rows[i].date = target_date THEN NoneQ
    ELSE LET first == CHOOSE i \in 1..Len(rows) :
                          /\ rows[i].date = target_date
                          /\ \A j \in 1..(i - 1) : rows[j].date # target_date
         IN Q(rows[first][column], 1)

\* Analyzer._calculate_returns
calculate_returns(rows, windows, accumulation_price) ==
    LET t_minus_1_price == get_price(rows, windows.t_minus_1, "close")
        t_plus_2_price == get_price(rows, windows.t_plus[2], "close")
        Profit(day, kind) ==
            LET offset_date == windows.t_plus[day]
                close_price == get_price(rows, offset_date, "close")
                low_price == get_price(rows, offset_date, "low")
                high_price == get_price(rows, offset_date, "high")
                typical_price ==
                    IF Truthy(low_price) /\ Truthy(high_price) /\ Truthy(close_price)
                    THEN Q(low_price.n + high_price.n + close_price.n, 3)
                    ELSE NoneQ
                exit == CASE kind = "close" -> close_price
                          [] kind = "low" -> low_price
                          [] kind = "high" -> high_price
                          [] kind = "typical" -> typical_price
            IN IF offset_date # NoneDate /\ Truthy(accumulation_price) /\ Truthy(exit)
               THEN PctChange(exit, accumulation_price)
               ELSE NoneQ
    IN [run_up |-> IF Truthy(accumulation_price) /\ Truthy(t_minus_1_price)
                   THEN PctChange(t_minus_1_price, accumulation_price)
                   ELSE NoneQ,
        event |-> IF Truthy(t_minus_1_price) /\ Truthy(t_plus_2_price)
                  THEN PctChange(t_plus_2_price, t_minus_1_price)
                  ELSE NoneQ,
        profit |-> [key \in (0..6) \X PriceKinds |-> Profit(key[1], key[2])]]

\* Analyzer._empty_result
empty_result ==
    [accumulation_price |-> NoneQ,
     accumulation_days |-> <<>>,
     reference_high |-> NoReferenceHigh,
     max_drawdown_pct |-> NoneQ,
     returns |-> [run_up |-> NoneQ, event |-> NoneQ,
                  profit |-> [key \in (0..6) \X PriceKinds |-> NoneQ]]]

\* A mutant of the analysis: without an accumulation zone the returns are still
\* computed instead of being left empty.
analyze_earnings_event_partial(rows, windows) ==
    LET enriched == analyzer_calculate_indicators(rows, windows)
        zone == find_accumulation_zone(enriched, windows)
    IN IF zone.price = NoneQ
       THEN [empty_result EXCEPT !.returns = calculate_returns(enriched, windows, NoneQ)]
       ELSE LET reference_high ==
                    calculate_reference_high(enriched, windows, zone.days[1].date)
            IN [accumulation_price |-> zone.price,
                accumulation_days |-> zone.days,
                reference_high |-> reference_high,
                max_drawdown_pct |-> calculate_drawdown(reference_high.price, zone.price),
                returns |-> calculate_returns(enriched, windows, zone.price)]

\* Analyzer.analyze_earnings_event
analyze_earnings_event(rows, windows) ==
    LET enriched == analyzer_calculate_indicators(rows, windows)
        zone == find_accumulation_zone(enriched, windows)
    IN IF zone.price = NoneQ THEN empty_result
       ELSE LET reference_high ==
                    calculate_reference_high(enriched, windows, zone.days[1].date)
            IN [accumulation_price |-> zone.price,
                accumulation_days |-> zone.days,
                reference_high |-> reference_high,
                max_drawdown_pct |-> calculate_drawdown(reference_high.price, zone.price),
                returns |-> calculate_returns(enriched, windows, zone.price)]

----------------------------------------------------------------------------
(* The values of the variables a specification does not use *)

NoMerge ==
    /\ serA = <<>>
    /\ serB = <<>>
    /\ stored = NoDF
    /\ trace = <<>>
    /\ snaps = <<>>
    /\ lastMerge = [existing |-> NoDF, new |-> NoDF, merged |-> NoDF]

NoResolve == [op |-> "none", offset |-> 0, idx |-> NoneIdx, result |-> NoneDate]

NoCalendar ==
    /\ trading_days = <<>>
    /\ earnings_date = NoneDate
    /\ lastResolve = NoResolve

NoCall ==
    [op |-> "none", from_date |-> NoneDate, to_date |-> NoneDate,
     force_refresh |-> FALSE, provider |-> [kind |-> "ok", data |-> <<>>],
     before |-> NoDF, asked |-> FALSE, computed |-> FALSE, wrote |-> FALSE,
     ret |-> NoDF]

NoWindows ==
    [earnings_date |-> NoneDate, obs_start |-> NoneDate, obs_end |-> NoneDate,
     acc_start |-> NoneDate, acc_end |-> NoneDate, t_minus_1 |-> NoneDate,
     t_plus |-> [k \in ForwardOffsets |-> NoneDate]]

NoResult == [op |-> "none", baseline |-> 0, rvol |-> <<>>, out |-> empty_result]

NoAnalysis ==
    /\ df = <<>>
    /\ window_set = NoWindows
    /\ result = NoResult

NoRet == [op |-> "none"]

NoFn ==
    /\ args = [fn |-> "none"]
    /\ ret = NoRet

NoLookup == [op |-> "none"]

NoConfig ==
    /\ stock_details = {}
    /\ lookup = NoLookup

NoRace ==
    /\ procs = <<>>
    /\ writes = <<>>

----------------------------------------------------------------------------
(* The analysis pipeline: perform_analysis of the user interface *)

\* src/src/config/constants.py
DEFAULT_HISTORY_DAYS == 365

\* DataFetcher.get_trading_days: the dates of the persisted series, none when
\* there is no record.
get_trading_days(file) ==
    LET cached == load_cached_data(file)
    IN IF cached.none \/ IsEmpty(cached) THEN <<>> ELSE FrameDates(cached.rows)

\* A mutant of the window set: the observation ends 40 days after the anchor
\* date.
get_analysis_windows_t40(date, days) ==
    [get_analysis_windows(date, days) EXCEPT !.obs_end = date + 40]

\* EarningsData.get_analysis_windows as perform_analysis calls it.
resolve_windows(date, days) == get_analysis_windows(date, days)

\* perform_analysis up to the call of the analyzer: the record after it, the
\* requests that reached the provider, the last date of the record when the
\* window set was resolved, the window set, and the frame handed to the
\* analyzer (None when the function returns None before).  today is the day of
\* the call; first and second are the provider's behaviour in the initial
\* fetch and in the buffered fetch.
perform_analysis(file, date, today, first, second) ==
    LET cached_days == get_trading_days(file)
        initial == fetch_ohlcv(file, today - DEFAULT_HISTORY_DAYS, today, FALSE, first)
        initial_request ==
            IF initial.asked
            THEN <<[from_date |-> today - DEFAULT_HISTORY_DAYS, to_date |-> today]>>
            ELSE <<>>
    IN IF cached_days = <<>> /\ (initial.ret.none \/ IsEmpty(initial.ret))
       THEN [file |-> initial.file, requests |-> initial_request,
             cache_last |-> NoneDate, windows |-> NoWindows, df |-> NoDF]
       ELSE LET file_1 == IF cached_days = <<>> THEN initial.file ELSE file
                requests_1 == IF cached_days = <<>> THEN initial_request ELSE <<>>
                trading_days_1 == IF cached_days = <<>>
                                  THEN FrameDates(initial.ret.rows) ELSE cached_days
                windows == resolve_windows(date, trading_days_1)
                buffered == fetch_with_buffer(file_1, windows.obs_start, windows.obs_end,
                                              second)
                buffered_request ==
                    IF buffered.asked
                    THEN <<[from_date |-> buffer_start(windows.obs_start),
                            to_date |-> windows.obs_end]>>
                    ELSE <<>>
            IN IF windows.obs_start = NoneDate \/ windows.obs_end = NoneDate
               THEN [file |-> file_1, requests |-> requests_1,
                     cache_last |-> MaxDateOf(file_1.rows), windows |-> windows,
                     df |-> NoDF]
               ELSE [file |-> buffered.file, requests |-> requests_1 \o buffered_request,
                     cache_last |-> MaxDateOf(file_1.rows), windows |-> windows,
                     df |-> buffered.ret]

----------------------------------------------------------------------------
(* The series cache under calls of fetch_ohlcv *)

\* Series holding one bar per date, in date order.
CleanSeries == {s \in SeqsUpTo(Bars, MaxRows) : IsSorted(s) /\ IsDateUnique(s)}

\* The bars a provider may return for [from_date, to_date], in any order.
ProviderData(from_date, to_date) ==
    SeqsUpTo({b \in Bars : b.date >= from_date /\ b.date <= to_date}, MaxRows)

\* Before the first call the symbol has no record, or a record left by an
\* earlier release that stored fewer indicator columns.
Init ==
    /\ cache \in {NoDF} \cup {DF(s, LegacyCols) : s \in CleanSeries \ {<<>>}}
    /\ last = NoCall
    /\ NoConfig
    /\ NoRace
    /\ NoFn
    /\ NoMerge
    /\ NoCalendar
    /\ NoAnalysis

\* One fetch_ohlcv call with its inputs and the provider's behaviour during it.
Call(from_date, to_date, force_refresh, provider) ==
    fetch_ohlcv(cache, from_date, to_date, force_refresh, provider)

\* A call made before the call under study: the record it leaves is kept.
EarlierCall ==
    /\ last.op = "none"
    /\ \E from_date \in Dates, to_date \in Dates, force_refresh \in BOOLEAN,
          kind \in ProviderKinds :
        /\ from_date <= to_date
        /\ \E data \in (IF kind = "ok" THEN ProviderData(from_date, to_date) ELSE {<<>>}) :
             cache' = Call(from_date, to_date, force_refresh,
                           [kind |-> kind, data |-> data]).file
    /\ UNCHANGED <<last, mergeVars, calVars, anaVars, fnVars, cfgVars, raceVars>>

\* The call under study: its inputs, its effects and its result are recorded.
FetchOhlcv ==
    /\ last.op = "none"
    /\ \E from_date \in Dates, to_date \in Dates, force_refresh \in BOOLEAN,
          kind \in ProviderKinds :
        /\ from_date <= to_date
        /\ \E data \in (IF kind = "ok" THEN ProviderData(from_date, to_date) ELSE {<<>>}) :
             LET provider == [kind |-> kind, data |-> data]
                 out == Call(from_date, to_date, force_refresh, provider)
             IN /\ cache' = out.file
                /\ last' = [op |-> "fetch_ohlcv", from_date |-> from_date,
                            to_date |-> to_date, force_refresh |-> force_refresh,
                            provider |-> provider, before |-> cache,
                            asked |-> out.asked, computed |-> out.computed,
                            wrote |-> out.wrote, ret |-> out.ret]
    /\ UNCHANGED <<mergeVars, calVars, anaVars, fnVars, cfgVars, raceVars>>

Next == EarlierCall \/ FetchOhlcv

Spec == Init /\ [][Next]_vars

\* C5: a call with force_refresh false on a record that covers the requested
\* range and carries every required indicator column returns the requested
\* sub-range of the record without calling the provider, without computing
\* indicators and without writing the record.
C5_CacheHitFrame ==
    (/\ last.op = "fetch_ohlcv"
     /\ ~last.force_refresh
     /\ ~last.before.none
     /\ MinDate(last.before.rows) <= last.from_date
     /\ MaxDateOf(last.before.rows) >= last.to_date
     /\ REQUIRED_INDICATORS \subseteq last.before.cols)
    => /\ ~last.asked
       /\ ~last.computed
       /\ ~last.wrote
       /\ cache = last.before
       /\ ~last.ret.none
       /\ last.ret.rows = FilterRows(last.before.rows, last.from_date, last.to_date)
       /\ last.ret.cols = last.before.cols

\* C5 witness: a cache hit on a covering, fully enriched record that returns a
\* proper, non-empty part of it.
C5_Witness ==
    /\ last.op = "fetch_ohlcv"
    /\ ~last.force_refresh
    /\ ~last.before.none
    /\ REQUIRED_INDICATORS \subseteq last.before.cols
    /\ MinDate(last.before.rows) <= last.from_date
    /\ MaxDateOf(last.before.rows) >= last.to_date
    /\ ~last.asked
    /\ last.ret.rows # <<>>
    /\ last.ret.rows # last.before.rows

\* C6: when the provider yields nothing (it fails, or returns an empty list),
\* the call returns None and leaves no record if none existed; otherwise it
\* returns the requested sub-range of the existing record and the record's
\* bars are unchanged, whatever force_refresh is.
C6_ProviderYieldsNothing ==
    (last.op = "fetch_ohlcv" /\ fetch_from_api(last.provider).none)
    => IF last.before.none
       THEN last.ret.none /\ cache.none /\ ~last.wrote
       ELSE /\ ~last.ret.none
            /\ last.ret.rows = FilterRows(last.before.rows, last.from_date, last.to_date)
            /\ ~cache.none
            /\ cache.rows = last.before.rows

\* C6 witness: a forced refresh whose provider request raised, on an existing
\* record, returned a non-empty part of that record.
C6_Witness ==
    /\ last.op = "fetch_ohlcv"
    /\ last.force_refresh
    /\ last.provider.kind = "error"
    /\ last.asked
    /\ ~last.before.none
    /\ last.ret.rows # <<>>

\* C7: the persisted series holds at most one bar per calendar date and its
\* bars are in ascending date order, after any sequence of calls.
C7_PersistedInvariant ==
    (last.op = "fetch_ohlcv" /\ ~cache.none) =>
        IsDateUnique(cache.rows) /\ IsSorted(cache.rows)

\* The bars a series carries for date d.
BarsOn(rows, d) == {rows[i] : i \in {j \in 1..Len(rows) : rows[j].date = d}}

\* The dates for which the provider returned a bar in the call under study.
ReturnedDates ==
    IF last.asked /\ last.provider.kind = "ok" THEN DatesOf(last.provider.data) ELSE {}

\* C24: whatever calls came before, and whatever the range, force_refresh and
\* the provider's behaviour in a call, every date the persisted series carried
\* before the call it still carries after it, and the bars of a date for which
\* the provider returned no bar in the call are after it what they were.
C24_NoBarLost ==
    last.op = "fetch_ohlcv" =>
        \A d \in DatesOf(last.before.rows) :
            /\ d \in DatesOf(cache.rows)
            /\ d \notin ReturnedDates => BarsOn(cache.rows, d) = BarsOn(last.before.rows, d)

\* C15: a call with force_refresh false on a record that covers the requested
\* range but lacks a required indicator column computes the indicators over
\* the whole record, writes the whole enriched record, does not call the
\* provider, and returns the requested sub-range of the enriched record.
C15_IncompleteIndicators ==
    (/\ last.op = "fetch_ohlcv"
     /\ ~last.force_refresh
     /\ ~last.before.none
     /\ last.before.rows # <<>>
     /\ MinDate(last.before.rows) <= last.from_date
     /\ MaxDateOf(last.before.rows) >= last.to_date
     /\ ~(REQUIRED_INDICATORS \subseteq last.before.cols))
    => /\ ~last.asked
       /\ last.computed
       /\ last.wrote
       /\ ~cache.none
       /\ cache.rows = last.before.rows
       /\ cache.cols = last.before.cols \cup REQUIRED_INDICATORS
       /\ ~last.ret.none
       /\ last.ret.rows = FilterRows(last.before.rows, last.from_date, last.to_date)
       /\ last.ret.cols = cache.cols

\* C15 witness: a record of several bars without the required columns, a
\* request for a proper part of its range; the whole record is written
\* enriched and the part is returned.
C15_Witness ==
    /\ last.op = "fetch_ohlcv"
    /\ ~last.force_refresh
    /\ ~last.before.none
    /\ ~(REQUIRED_INDICATORS \subseteq last.before.cols)
    /\ Len(last.before.rows) >= 2
    /\ ~last.asked
    /\ last.wrote
    /\ REQUIRED_INDICATORS \subseteq cache.cols
    /\ Len(cache.rows) = Len(last.before.rows)
    /\ Len(last.ret.rows) = 1

----------------------------------------------------------------------------
(* The resolver applied to small calendars *)

CalDates == 2..(MaxCalDate + 1)

AnchorDates == 1..(MaxCalDate + 2)

Offsets == (0 - MaxOffset)..MaxOffset

InitCal ==
    /\ trading_days \in SeqsUpTo(CalDates, MaxCalLen)
    /\ earnings_date \in AnchorDates
    /\ lastResolve = NoResolve
    /\ cache = NoDF
    /\ last = NoCall
    /\ NoConfig
    /\ NoRace
    /\ NoFn
    /\ NoMerge
    /\ NoAnalysis

GetTradingDayOffset ==
    /\ \E offset \in Offsets :
         lastResolve' = [op |-> "get_trading_day_offset", offset |-> offset,
                         idx |-> find_nearest_trading_day_index(
                                     earnings_date, SortDays(trading_days)),
                         result |-> get_trading_day_offset(earnings_date, offset,
                                                           trading_days)]
    /\ UNCHANGED <<trading_days, earnings_date, cacheVars, mergeVars, anaVars, fnVars, cfgVars, raceVars>>

NextCal == GetTradingDayOffset

SpecCal == InitCal /\ [][NextCal]_vars

DaySet(days) == {days[i] : i \in 1..Len(days)}

\* The position the specification gives the anchor: the number of calendar
\* entries earlier than the anchor, or the last index when the anchor follows
\* every trading day.
PositionOf(date, days) ==
    LET before == Cardinality({i \in 1..Len(days) : days[i] < date})
    IN IF before > Len(days) - 1 THEN Len(days) - 1 ELSE before

\* C2: for a non-empty calendar the resolver returns a member of the calendar
\* and never None, whatever the anchor and the offset; the earliest trading day
\* when position + offset < 0 and the last one when position + offset > len - 1.
C2_CalendarClamping ==
    (lastResolve.op = "get_trading_day_offset" /\ trading_days # <<>>) =>
        LET target == PositionOf(earnings_date, trading_days) + lastResolve.offset
            days == DaySet(trading_days)
        IN /\ lastResolve.result # NoneDate
           /\ lastResolve.result \in days
           /\ target < 0 => \A d \in days : lastResolve.result <= d
           /\ target > Len(trading_days) - 1 => \A d \in days : lastResolve.result >= d

\* C2 witness: a calendar of several distinct days, given out of order, and an
\* offset that runs past its last day, resolved to that last day.
C2_Witness ==
    /\ lastResolve.op = "get_trading_day_offset"
    /\ Cardinality(DaySet(trading_days)) >= 3
    /\ trading_days[1] > trading_days[2]
    /\ PositionOf(earnings_date, trading_days) + lastResolve.offset > Len(trading_days) - 1
    /\ PositionOf(earnings_date, trading_days) < Len(trading_days) - 1
    /\ \A d \in DaySet(trading_days) : lastResolve.result >= d

\* C13: for a non-empty calendar and a fixed anchor, the date resolved for
\* offset k + 1 is never earlier than the date resolved for offset k, clamped
\* or not.
C13_Monotonic ==
    [][(/\ lastResolve.op = "get_trading_day_offset"
        /\ trading_days # <<>>
        /\ lastResolve'.offset = lastResolve.offset + 1)
       => lastResolve'.result >= lastResolve.result]_vars

\* C13 witness: on a calendar of several distinct days given out of order,
\* an offset resolved inside the calendar to a day later than the earliest
\* day, which the offset before it resolves to.
C13_Witness ==
    /\ lastResolve.op = "get_trading_day_offset"
    /\ Cardinality(DaySet(trading_days)) >= 3
    /\ trading_days[1] > trading_days[2]
    /\ PositionOf(earnings_date, trading_days) + lastResolve.offset = 1
    /\ lastResolve.offset < 0
    /\ \E d \in DaySet(trading_days) : d < lastResolve.result
    /\ \E d \in DaySet(trading_days) : d > lastResolve.result

\* The calendar in ascending order.
AscendingDays(days) ==
    CHOOSE s \in [1..Len(days) -> DaySet(days)] :
        /\ \A i \in 1..(Len(days) - 1) : s[i] <= s[i + 1]
        /\ \A d \in DaySet(days) :
             Cardinality({i \in 1..Len(days) : s[i] = d})
                = Cardinality({i \in 1..Len(days) : days[i] = d})

\* C14: for a non-empty calendar in any order, the position used for the
\* anchor is the index, in ascending order, of the earliest trading day on or
\* after the anchor, 0 when the anchor precedes every trading day and the last
\* index when it follows every trading day; the date resolved for offset k is
\* the trading day at position + k when that index is in range.
C14_AnchorPosition ==
    (lastResolve.op = "get_trading_day_offset" /\ trading_days # <<>>) =>
        LET asc == AscendingDays(trading_days)
            n == Len(trading_days)
            OnOrAfter == {i \in 1..n : asc[i] >= earnings_date}
            position == IF OnOrAfter = {} THEN n - 1
                        ELSE (CHOOSE i \in OnOrAfter : \A j \in OnOrAfter : i <= j) - 1
        IN /\ lastResolve.idx = position
           /\ (\A i \in 1..n : asc[i] > earnings_date) => lastResolve.idx = 0
           /\ (\A i \in 1..n : asc[i] < earnings_date) => lastResolve.idx = n - 1
           /\ (position + lastResolve.offset >= 0 /\ position + lastResolve.offset <= n - 1)
              => lastResolve.result = asc[position + lastResolve.offset + 1]

\* C14 witness: an anchor between two trading days of a calendar given out of
\* order snaps forward to the later one, and a negative offset inside the
\* calendar is resolved from there.
C14_Witness ==
    /\ lastResolve.op = "get_trading_day_offset"
    /\ Cardinality(DaySet(trading_days)) >= 3
    /\ trading_days[1] > trading_days[2]
    /\ earnings_date \notin DaySet(trading_days)
    /\ \E d \in DaySet(trading_days) : d < earnings_date
    /\ \E d \in DaySet(trading_days) : d > earnings_date
    /\ lastResolve.idx = 1
    /\ lastResolve.offset = 0 - 1
    /\ lastResolve.result < earnings_date

----------------------------------------------------------------------------
(* The analyzer applied to frames of MaxBars daily bars *)

\* Row i of every frame is dated 2 * i: even days are trading days, odd days
\* are not.
RowDate(i) == 2 * i

\* The price side of a frame: quiet bars (low 9, high 12, close 9), one bar of a
\* higher high at row peak, a trough bar at row dipA and a second bar at row
\* dipB whose typical price ties with the trough ("tie", with another low) or
\* lies below it ("lower").
PriceRow(i, dipA, dipB, kind, peak) ==
    IF i = dipA THEN [low |-> 6, high |-> 9, close |-> 6]
    ELSE IF i = dipB THEN (IF kind = "tie" THEN [low |-> 5, high |-> 10, close |-> 6]
                           ELSE [low |-> 6, high |-> 8, close |-> 4])
    ELSE IF i = peak THEN [low |-> 9, high |-> 15, close |-> 9]
    ELSE [low |-> 9, high |-> 12, close |-> 9]

\* The volume side of a frame: volume 2 until a spike to 6 from row spike on; a
\* moving average that is undefined before row def, level until the spike and
\* level + 1 from the spike on.
VolumeAt(i, spike) == IF i >= spike THEN 6 ELSE 2

SmaAt(i, def, level, spike) ==
    IF i < def THEN NaN ELSE IF i >= spike THEN level + 1 ELSE level

MakeFrame(n, dipA, dipB, kind, peak, spike, def20, level20, def50) ==
    [i \in 1..n |->
        LET price == PriceRow(i, dipA, dipB, kind, peak)
        IN [date |-> RowDate(i), low |-> price.low, high |-> price.high,
            close |-> price.close, volume |-> VolumeAt(i, spike),
            Volume_SMA_20 |-> SmaAt(i, def20, level20, spike),
            Volume_SMA_50 |-> SmaAt(i, def50, 4, spike),
            RSI_14 |-> 50]]

\* The window set of an anchor over the frame's own dates, and the variations
\* of it a caller can hand over: a boundary missing, every date missing (no
\* calendar), an accumulation window between two trading days, a late
\* observation start.
WindowModes ==
    {"resolved", "no_acc_start", "no_acc_end", "no_obs_start", "unavailable",
     "gap", "late_obs"}

WindowsFor(rows, date, mode) ==
    LET w == get_analysis_windows(date, FrameDates(rows))
    IN CASE mode = "resolved" -> w
         [] mode = "no_acc_start" -> [w EXCEPT !.acc_start = NoneDate]
         [] mode = "no_acc_end" -> [w EXCEPT !.acc_end = NoneDate]
         [] mode = "no_obs_start" -> [w EXCEPT !.obs_start = NoneDate]
         [] mode = "unavailable" -> [NoWindows EXCEPT !.earnings_date = date]
         [] mode = "gap" -> [w EXCEPT !.acc_start = w.acc_end + 1, !.acc_end = w.acc_end + 1]
         [] mode = "late_obs" -> [w EXCEPT !.obs_start = w.acc_start + 4]

\* Anchors: early in the frame, 11 rows into it, near its end on a trading day
\* and on a non-trading day, and after its last bar.
Anchors(n) ==
    {RowDate(6), RowDate(12), RowDate(n - 2), RowDate(n - 2) - 1, RowDate(n) + 1}

DipRows(n) == (n - 13)..(n - 3)

\* Frames that vary on the price side.
PriceFrames ==
    LET n == MaxBars
    IN {MakeFrame(n, dipA, dipB, kind, peak, n + 1, 1, 2, 1) :
           dipA \in DipRows(n), dipB \in DipRows(n), kind \in {"tie", "lower"},
           peak \in 1..n}

\* Frames that vary on the volume side.
VolumeFrames ==
    LET n == MaxBars
    IN {MakeFrame(n, n - 8, n - 8, "tie", 2, spike, def20, level20, def50) :
           spike \in {n - 7, n + 1}, def20 \in {1, n - 13, n - 12, n + 1},
           level20 \in {0, 2}, def50 \in {1, n - 12, n + 1}}

\* Frames with a bar of low 0 on or after the anchor bar.
ZeroLowFrames ==
    LET n == MaxBars
        f == MakeFrame(n, n - 8, n - 8, "tie", 2, n + 1, 1, 2, 1)
    IN {f} \cup {[f EXCEPT ![z].low = 0] : z \in (n - 2)..n}

\* Window sets whose forward dates a caller resolved on another calendar: one
\* forward date falls on a day without a bar, or is missing.
ForwardWindows(rows) ==
    LET w == WindowsFor(rows, RowDate(MaxBars - 2), "resolved")
    IN {w} \cup {[w EXCEPT !.t_plus[k] = @ + 1] : k \in 0..2}
           \cup {[w EXCEPT !.t_plus[k] = NoneDate] : k \in 0..2}

InitAna ==
    /\ \/ /\ df \in PriceFrames
          /\ \E date \in {RowDate(MaxBars - 2), RowDate(MaxBars) + 1} :
                window_set = WindowsFor(df, date, "resolved")
       \/ /\ df \in VolumeFrames
          /\ \E date \in Anchors(MaxBars) : window_set = WindowsFor(df, date, "resolved")
       \/ /\ df \in {f \in PriceFrames : f[2].high = 15 \/ f[MaxBars - 9].high = 15}
          /\ \E mode \in WindowModes \ {"resolved"} :
                window_set = WindowsFor(df, RowDate(MaxBars - 2) - 1, mode)
       \/ /\ df \in ZeroLowFrames
          /\ window_set \in ForwardWindows(df)
    /\ result = NoResult
    /\ cache = NoDF
    /\ last = NoCall
    /\ NoConfig
    /\ NoRace
    /\ NoFn
    /\ NoMerge
    /\ NoCalendar

AnalyzeEarningsEvent ==
    /\ result.op = "none"
    /\ LET enriched == analyzer_calculate_indicators(df, window_set)
       IN result' = [op |-> "analyze",
                     baseline |-> BaselineRow(df, window_set.earnings_date),
                     rvol |-> [i \in 1..Len(enriched) |->
                                  [rvol_20 |-> enriched[i].rvol_20,
                                   rvol_50 |-> enriched[i].rvol_50]],
                     out |-> analyze_earnings_event(df, window_set)]
    /\ df' = caller_frame_after(df, window_set)
    /\ UNCHANGED <<window_set, cacheVars, mergeVars, calVars, fnVars, cfgVars, raceVars>>

\* A second call with the frame and the window set of the first.
AnalyzeAgain ==
    /\ result.op = "analyze"
    /\ result' = [result EXCEPT !.op = "again",
                                !.out = analyze_earnings_event(df, window_set)]
    /\ df' = caller_frame_after(df, window_set)
    /\ UNCHANGED <<window_set, cacheVars, mergeVars, calVars, fnVars, cfgVars, raceVars>>

NextAna == AnalyzeEarningsEvent \/ AnalyzeAgain

SpecAna == InitAna /\ [][NextAna]_vars

\* The rows of the frame dated within the accumulation window.
AccumulationRows ==
    {i \in 1..Len(df) : /\ window_set.acc_start # NoneDate
                        /\ window_set.acc_end # NoneDate
                        /\ df[i].date >= window_set.acc_start
                        /\ df[i].date <= window_set.acc_end}

\* p is the third of low + high + close of row i.
IsTypicalOf(p, i) == p.d > 0 /\ 3 * p.n = (df[i].low + df[i].high + df[i].close) * p.d

\* Row a is the first row dated on or after the earnings date.
IsAnchorRow(a) ==
    /\ df[a].date >= window_set.earnings_date
    /\ \A j \in 1..(a - 1) : df[j].date < window_set.earnings_date

IsEmptyResult(out) ==
    /\ out.accumulation_price = NoneQ
    /\ out.accumulation_days = <<>>
    /\ out.reference_high.price = NoneQ
    /\ out.reference_high.date = NoneDate
    /\ out.max_drawdown_pct = NoneQ
    /\ out.returns.run_up = NoneQ
    /\ out.returns.event = NoneQ
    /\ \A key \in DOMAIN out.returns.profit : out.returns.profit[key] = NoneQ

ReferenceRows ==
    LET days == result.out.accumulation_days
    IN {i \in 1..Len(df) :
          /\ window_set.obs_start # NoneDate
          /\ df[i].date >= window_set.obs_start
          /\ \A k \in 1..Len(days) : df[i].date < days[k].date}

\* C10: when an accumulation zone is found, the reference-high price is the
\* greatest high over the bars dated from the observation start up to, not
\* including, the earliest accumulation day, and the reference-high date is the
\* date of a bar of that range with that high; when the range holds no bar both
\* are null.
C10_ReferenceHigh ==
    (result.op = "analyze" /\ result.out.accumulation_days # <<>>) =>
        LET ref == result.out.reference_high
        IN IF ReferenceRows = {}
           THEN ref.price = NoneQ /\ ref.date = NoneDate
           ELSE /\ ref.price.d = 1
                /\ \A i \in ReferenceRows : df[i].high <= ref.price.n
                /\ \E i \in ReferenceRows :
                     df[i].high = ref.price.n /\ df[i].date = ref.date

\* C10 witness: the greatest high before the earliest accumulation day is 15,
\* bars precede the observation start and a bar of a high of 12 lies in the range.
C10_Witness ==
    /\ result.op = "analyze"
    /\ result.out.accumulation_days # <<>>
    /\ result.out.reference_high.price = [n |-> 15, d |-> 1]
    /\ df[1].date < window_set.obs_start
    /\ Cardinality(ReferenceRows) > 2

\* The rows of the frame dated date.
RowsDated(date) == {i \in 1..Len(df) : date # NoneDate /\ df[i].date = date}

\* The exit price of a policy on row i, times 3.
ExitTimes3(i, kind) ==
    CASE kind = "close" -> 3 * df[i].close
      [] kind = "low" -> 3 * df[i].low
      [] kind = "high" -> 3 * df[i].high
      [] kind = "typical" -> df[i].low + df[i].high + df[i].close

\* C12: when an accumulation zone is found, for each offset T+0..T+6 and each
\* exit policy the return is null when no bar is dated the resolved date of
\* the offset, and otherwise it is (exit - accumulation_price) /
\* accumulation_price * 100 with the exit price of that policy on that bar.
C12_ForwardReturns ==
    (result.op = "analyze" /\ result.out.accumulation_price # NoneQ) =>
        \A day \in 0..6, kind \in PriceKinds :
            LET v == result.out.returns.profit[<<day, kind>>]
                p == result.out.accumulation_price
                Matches == RowsDated(window_set.t_plus[day])
            IN IF Matches = {} THEN v = NoneQ
               ELSE /\ v # NoneQ
                    /\ v.d > 0
                    /\ \E i \in Matches :
                         v.n * (3 * p.n) =
                            100 * (ExitTimes3(i, kind) * p.d - 3 * p.n) * v.d

C21_AsStated ==
    result.op = "analyze" =>
        \A k \in 1..Len(result.out.accumulation_days) :
            LET day == result.out.accumulation_days[k]
            IN day.days_before_earnings =
                 Cardinality({i \in 1..Len(df) : /\ df[i].date > day.date
                                                 /\ df[i].date < window_set.earnings_date})

\* C21 as amended: every reported accumulation day d is annotated with the
\* number of bars dated on or after d and strictly before the anchor date, d
\* itself counted; a day two bars before the first bar dated on or after the
\* anchor date is annotated with 2.
C21_DaysBefore ==
    result.op = "analyze" =>
        \A k \in 1..Len(result.out.accumulation_days) :
            LET day == result.out.accumulation_days[k]
            IN /\ day.days_before_earnings =
                    Cardinality({i \in 1..Len(df) : /\ df[i].date >= day.date
                                                    /\ df[i].date < window_set.earnings_date})
               /\ \A a \in 3..Len(df) :
                    (IsAnchorRow(a) /\ df[a - 2].date = day.date)
                        => day.days_before_earnings = 2

\* C21 witness: an accumulation day two bars before the anchor bar is reported
\* with 2, and another, ten bars before it, with 10.
C21_Witness ==
    /\ result.op = "analyze"
    /\ \E a \in 11..Len(df) :
         /\ IsAnchorRow(a)
         /\ \E k \in 1..Len(result.out.accumulation_days) :
              /\ result.out.accumulation_days[k].date = df[a - 2].date
              /\ result.out.accumulation_days[k].days_before_earnings = 2
         /\ \E k \in 1..Len(result.out.accumulation_days) :
              /\ result.out.accumulation_days[k].date = df[a - 10].date
              /\ result.out.accumulation_days[k].days_before_earnings = 10

\* The baseline bar of the analysis: the bar 11 rows before the first bar dated
\* on or after the earnings date, 0 when fewer than 11 bars precede that bar or
\* no bar is dated on or after the earnings date.
BaselineBar ==
    IF \E a \in 12..Len(df) : IsAnchorRow(a)
    THEN (CHOOSE a \in 12..Len(df) : IsAnchorRow(a)) - 11
    ELSE 0

\* Every bar's ratios are volume / the bar's own Volume SMA.
Unfrozen20 ==
    \A i \in 1..Len(df) : result.rvol[i].rvol_20 = Div(df[i].volume, df[i].Volume_SMA_20)

Unfrozen50 ==
    \A i \in 1..Len(df) : result.rvol[i].rvol_50 = Div(df[i].volume, df[i].Volume_SMA_50)

C27_FreezeDayAgreement ==
    result.op = "analyze" =>
        LET days == SortDays(FrameDates(df))
            earnings_idx == find_nearest_trading_day_index(window_set.earnings_date, days)
        IN (earnings_idx # NoneIdx /\ earnings_idx + RVOL_BASELINE_OFFSET >= 0) =>
              /\ result.baseline # 0
              /\ df[result.baseline].date =
                    get_trading_day_offset(window_set.earnings_date,
                                           RVOL_BASELINE_OFFSET, FrameDates(df))

\* C28: when the window set was resolved on the frame's own dates and fewer
\* than k bars follow the anchor position (k in 0..6), the T+k date is the date
\* of the last bar and the four T+k returns are the returns computed from the
\* last bar, none of them null, and equal to those of every other offset
\* clamped to the last bar.
C28_ClampedForwardOffsets ==
    (/\ result.op = "analyze"
     /\ window_set = get_analysis_windows(window_set.earnings_date, FrameDates(df)))
    => LET n == Len(df)
           position == PositionOf(window_set.earnings_date, FrameDates(df))
           Clamped(k) == position + k > n - 1
       IN \A k \in 0..6 :
            Clamped(k) =>
               /\ window_set.t_plus[k] = df[n].date
               /\ \A kind \in PriceKinds :
                    LET v == result.out.returns.profit[<<k, kind>>]
                        p == result.out.accumulation_price
                    IN /\ v # NoneQ
                       /\ p # NoneQ
                       /\ v.d > 0
                       /\ v.n * (3 * p.n) = 100 * (ExitTimes3(n, kind) * p.d - 3 * p.n) * v.d
                       /\ \A j \in 0..6 :
                            Clamped(j) => result.out.returns.profit[<<j, kind>>] = v

\* The keys of the returns bundle: run_up, event and one profit entry for
\* every day T+0..T+6 and every exit-price policy.
ReturnKeys == {"run_up", "event", "profit"}

ProfitKeys == (0..6) \X PriceKinds

C30_EmptyReached ==
    /\ result.op = "analyze"
    /\ result.out.accumulation_price = NoneQ
    /\ result.out.accumulation_days = <<>>

----------------------------------------------------------------------------
(* The merge, applied to two series A and B in any order *)

\* Series as the provider path and the cache loader hand them to _merge_data:
\* date-ordered, possibly carrying more than one row for a date.
SortedSeries == {s \in SeqsUpTo(Bars, MaxRows) : IsSorted(s)}

InitMerge ==
    /\ serA \in SortedSeries
    /\ serB \in SortedSeries
    /\ stored = NoDF
    /\ trace = <<>>
    /\ snaps = <<>>
    /\ lastMerge = [existing |-> NoDF, new |-> NoDF, merged |-> NoDF]
    /\ cache = NoDF
    /\ last = NoCall
    /\ NoConfig
    /\ NoRace
    /\ NoFn
    /\ NoCalendar
    /\ NoAnalysis

MergeStep(tag, rows) ==
    /\ Len(trace) < MaxMerges
    /\ LET new == DF(rows, {})
           merged == merge_data(stored, new)
       IN /\ stored' = merged
          /\ snaps' = Append(snaps, merged)
          /\ lastMerge' = [existing |-> stored, new |-> new, merged |-> merged]
    /\ trace' = Append(trace, tag)
    /\ UNCHANGED <<serA, serB, cacheVars, calVars, anaVars, fnVars, cfgVars, raceVars>>

MergeA == MergeStep("A", serA)

MergeB == MergeStep("B", serB)

NextMerge == MergeA \/ MergeB

SpecMerge == InitMerge /\ [][NextMerge]_vars

\* The rows of a series that carry date d.
RowsAt(rows, d) == {i \in 1..Len(rows) : rows[i].date = d}

\* The last row of a series that carries date d.
LastAt(rows, d) == rows[CHOOSE i \in RowsAt(rows, d) : \A j \in RowsAt(rows, d) : j <= i]

\* Two series carry equal bars on every date they share.
AgreeOnShared(a, b) ==
    \A i \in 1..Len(a), j \in 1..Len(b) : a[i].date = b[j].date => a[i] = b[j]

----------------------------------------------------------------------------
(* The drawdown applied to pairs of prices *)

\* A reference high or an accumulation price: None, zero, a whole price or a
\* third of one (a typical price).
DrawdownPrices ==
    {NoneQ} \cup {Q(n, d) : n \in {0, 80, 90, 100, 120}, d \in {1, 3}}

InitDrawdown ==
    /\ \E r \in DrawdownPrices, a \in DrawdownPrices :
         args = [fn |-> "calculate_drawdown", reference_high |-> r,
                 accumulation_price |-> a]
    /\ ret = NoRet
    /\ cache = NoDF
    /\ last = NoCall
    /\ NoConfig
    /\ NoRace
    /\ NoMerge
    /\ NoCalendar
    /\ NoAnalysis

CalculateDrawdown ==
    /\ ret.op = "none"
    /\ ret' = [op |-> "return",
               value |-> calculate_drawdown(args.reference_high,
                                            args.accumulation_price)]
    /\ UNCHANGED <<args, cacheVars, mergeVars, calVars, anaVars, cfgVars, raceVars>>

NextDrawdown == CalculateDrawdown

SpecDrawdown == InitDrawdown /\ [][NextDrawdown]_vars

\* C11: the drawdown is null exactly when the accumulation price is null, the
\* reference high is null or the reference high is zero; otherwise it equals
\* (accumulation_price - reference_high) / reference_high * 100, which is
\* negative when the accumulation price is below the reference high.
C11_Drawdown ==
    ret.op = "return" =>
        LET r == args.reference_high
            a == args.accumulation_price
            v == ret.value
        IN /\ (v = NoneQ) <=> (a = NoneQ \/ r = NoneQ \/ (r.d > 0 /\ r.n = 0))
           /\ v # NoneQ =>
                /\ v.d > 0
                /\ v.n * (r.n * a.d) = 100 * (a.n * r.d - r.n * a.d) * v.d
                /\ (a.n * r.d < r.n * a.d) => v.n < 0

\* C11 witness: a reference high of 100 and an accumulation price of 80 give
\* a drawdown of -20.
C11_Witness ==
    /\ ret.op = "return"
    /\ args.reference_high = [n |-> 100, d |-> 1]
    /\ args.accumulation_price = [n |-> 80, d |-> 1]
    /\ ret.value = [n |-> 0 - 20, d |-> 1]

----------------------------------------------------------------------------
(* The rolling percentile rank applied to short series *)

Samples == (0..MaxValue) \cup {NaN}

InitPercentile ==
    /\ \E series \in SeqsUpTo(Samples, MaxSeriesLen), window \in 1..MaxWindow :
         args = [fn |-> "calculate_percentile", series |-> series, window |-> window]
    /\ ret = NoRet
    /\ cache = NoDF
    /\ last = NoCall
    /\ NoConfig
    /\ NoRace
    /\ NoMerge
    /\ NoCalendar
    /\ NoAnalysis

CalculatePercentile ==
    /\ ret.op = "none"
    /\ ret' = [op |-> "return",
               value |-> calculate_percentile(args.series, args.window)]
    /\ UNCHANGED <<args, cacheVars, mergeVars, calVars, anaVars, cfgVars, raceVars>>

NextPercentile == CalculatePercentile

SpecPercentile == InitPercentile /\ [][NextPercentile]_vars

\* The positions of the defined samples among the last window samples up to i.
TrailingValid(i) ==
    {j \in 1..i : j > i - args.window /\ args.series[j] # NaN}

\* C17: the rank at a position is undefined exactly when the sample there is
\* undefined or fewer than 2 defined samples lie in the trailing window; where
\* defined it lies in [0, 100], is exactly 50 when the defined samples of the
\* window are all equal, and otherwise equals (value - min) / (max - min) * 100
\* over the defined samples of the window.
C17_PercentileRank ==
    ret.op = "return" =>
        \A i \in 1..Len(args.series) :
            LET v == ret.value[i]
                x == args.series[i]
                W == TrailingValid(i)
            IN /\ (v = NaNQ) <=> (x = NaN \/ Cardinality(W) < 2)
               /\ v # NaNQ =>
                    /\ v.d > 0
                    /\ v.n >= 0
                    /\ v.n <= 100 * v.d
                    /\ (\A j \in W : args.series[j] = x) => v = [n |-> 50, d |-> 1]
                    /\ \A lo \in W, hi \in W :
                         (/\ \A j \in W : args.series[lo] <= args.series[j]
                          /\ \A j \in W : args.series[hi] >= args.series[j]
                          /\ args.series[hi] > args.series[lo])
                         => v.n * (args.series[hi] - args.series[lo])
                               = (x - args.series[lo]) * 100 * v.d

\* C17 witness: a sample ranked strictly inside its window of three, the
\* sample just before the window being smaller than every sample in it.
C17_Witness ==
    /\ ret.op = "return"
    /\ args.window = 3
    /\ \E i \in 4..Len(args.series) :
         /\ Cardinality(TrailingValid(i)) = 3
         /\ args.series[i - 3] # NaN
         /\ \A j \in TrailingValid(i) : args.series[i - 3] < args.series[j]
         /\ ret.value[i] = [n |-> 50, d |-> 1]
         /\ \E j \in TrailingValid(i) : args.series[j] < args.series[i]
         /\ \E j \in TrailingValid(i) : args.series[j] > args.series[i]

----------------------------------------------------------------------------
(* The end-to-end scenario: windows resolved on the frame's own dates, then *)
(* the analysis                                                              *)

\* A frame of n bars around the anchor row a: quiet bars (low 100, high 110,
\* close 105), one trough bar of typical price 90 at row dip, one bar of high
\* 120 at row peak, a close of 95 at row a + 2 and, at row late (0: none), a
\* bar of high 130.
ScenarioFrame(n, a, dip, peak, late) ==
    [i \in 1..n |->
        LET price ==
                IF i = dip THEN [low |-> 85, high |-> 95, close |-> 90]
                ELSE IF i = peak THEN [low |-> 100, high |-> 120, close |-> 105]
                ELSE IF i = a + 2 THEN [low |-> 92, high |-> 100, close |-> 95]
                ELSE IF i = late THEN [low |-> 100, high |-> 130, close |-> 105]
                ELSE [low |-> 100, high |-> 110, close |-> 105]
        IN [date |-> RowDate(i), low |-> price.low, high |-> price.high,
            close |-> price.close, volume |-> 2, Volume_SMA_20 |-> 2,
            Volume_SMA_50 |-> 4, RSI_14 |-> 50]]

\* Anchor rows: so early that the observation start clamps to the first bar,
\* in the middle, and so late that T+2 is the last bar.
ScenarioAnchors == {12, ScenarioBars - 17, ScenarioBars - 10, ScenarioBars - 2}

FirstRow(i) == IF i < 1 THEN 1 ELSE i

InitScenario ==
    /\ \E a \in ScenarioAnchors :
         \E dip \in FirstRow(a + ACCUMULATION_START_OFFSET)..(a + ACCUMULATION_END_OFFSET) :
           \E peak \in {FirstRow(a + OBSERVATION_START_OFFSET), dip - 1},
              late \in {0, dip + 1}, on \in {0, 1} :
             /\ df = ScenarioFrame(ScenarioBars, a, dip, peak, late)
             /\ earnings_date = RowDate(a) - on
             /\ trading_days = FrameDates(df)
    /\ lastResolve = NoResolve
    /\ window_set = NoWindows
    /\ result = NoResult
    /\ cache = NoDF
    /\ last = NoCall
    /\ NoConfig
    /\ NoRace
    /\ NoFn
    /\ NoMerge

GetAnalysisWindows ==
    /\ window_set = NoWindows
    /\ window_set' = get_analysis_windows(earnings_date, trading_days)
    /\ UNCHANGED <<df, result, cacheVars, mergeVars, calVars, fnVars, cfgVars, raceVars>>

AnalyzeResolved ==
    /\ window_set # NoWindows
    /\ AnalyzeEarningsEvent

NextScenario == GetAnalysisWindows \/ AnalyzeResolved

SpecScenario == InitScenario /\ [][NextScenario]_vars

\* C18: on a 40-bar frame in which exactly one bar of the accumulation window
\* has the least typical price, 90, the greatest high from the observation
\* start up to that bar is 120, and the bar on the T+2 date closes at 95, the
\* analysis reports accumulation_price 90, max_drawdown_pct -25 and
\* profit_t2_close (95 - 90) / 90 * 100 = 50 / 9.
C18_EndToEnd ==
    (/\ result.op = "analyze"
     /\ Len(df) = ScenarioBars
     /\ \E dip \in AccumulationRows :
          /\ df[dip].low + df[dip].high + df[dip].close = 3 * 90
          /\ \A i \in AccumulationRows \ {dip} :
               df[i].low + df[i].high + df[i].close > 3 * 90
          /\ \E i \in 1..Len(df) :
               /\ df[i].date >= window_set.obs_start
               /\ df[i].date < df[dip].date
               /\ df[i].high = 120
          /\ \A i \in 1..Len(df) :
               (df[i].date >= window_set.obs_start /\ df[i].date < df[dip].date)
                  => df[i].high <= 120
     /\ \E i \in RowsDated(window_set.t_plus[2]) : df[i].close = 95)
    => /\ result.out.accumulation_price = [n |-> 90, d |-> 1]
       /\ result.out.max_drawdown_pct = [n |-> 0 - 25, d |-> 1]
       /\ result.out.returns.profit[<<2, "close">>] = [n |-> 50, d |-> 9]

\* C18 witness: the scenario analysed with an anchor on a non-trading day, a
\* higher high after the trough, and the three reported values.
C18_Witness ==
    /\ result.op = "analyze"
    /\ Len(df) = ScenarioBars
    /\ earnings_date \notin {df[i].date : i \in 1..Len(df)}
    /\ \E i \in 1..Len(df) : df[i].high = 130
    /\ Len(result.out.accumulation_days) = 1
    /\ result.out.accumulation_price = [n |-> 90, d |-> 1]
    /\ result.out.reference_high.price = [n |-> 120, d |-> 1]
    /\ result.out.max_drawdown_pct = [n |-> 0 - 25, d |-> 1]
    /\ result.out.returns.profit[<<2, "close">>] = [n |-> 50, d |-> 9]

----------------------------------------------------------------------------
(* Requests for symbols whose metadata or series may be absent *)

Symbols == {"POLYCAB", "KEI"}

\* An entry of stockSymbolDetails.json: the instrument_token key may be missing
\* (or null) and the earnings_dates key may be missing.
ConfigEntries ==
    [symbol : Symbols, has_token : BOOLEAN, has_earnings_dates : BOOLEAN]

\* DataFetcher._load_configs: the keys of self.instrument_tokens.
instrument_tokens(details) == {e.symbol : e \in {d \in details : d.has_token}}

\* EarningsData._load_stock_details: the keys of self.earnings_dates; every
\* listed symbol gets an entry, an empty list when the key is missing.
earnings_dates_keys(details) == {e.symbol : e \in details}

\* DataFetcher.get_instrument_token
get_instrument_token(details, symbol) ==
    IF symbol \in instrument_tokens(details) THEN "value" ELSE "None"

\* EarningsData.get_earnings_dates
get_earnings_dates(details, symbol) ==
    IF symbol \notin earnings_dates_keys(details) THEN "ValueError"
    ELSE IF \E e \in details : e.symbol = symbol /\ e.has_earnings_dates
    THEN "value"
    ELSE "empty"

\* What _fetch_from_api meets for a symbol: without a token it returns None
\* before the provider is called.
ProviderFor(details, symbol, kind) ==
    IF get_instrument_token(details, symbol) = "None"
    THEN [kind |-> "no_token", data |-> <<>>]
    ELSE [kind |-> kind, data |-> <<>>]

InitAbsence ==
    /\ stock_details \in {d \in SUBSET ConfigEntries :
                            \A e \in d, f \in d : e.symbol = f.symbol => e = f}
    /\ lookup = NoLookup
    /\ cache \in {NoDF, DF(<<[date |-> 1, ohlcv |-> "ohlcv_1"]>>, REQUIRED_INDICATORS)}
    /\ last = NoCall
    /\ NoFn
    /\ NoRace
    /\ NoMerge
    /\ NoCalendar
    /\ NoAnalysis

GetInstrumentToken ==
    /\ \E symbol \in Symbols :
         lookup' = [op |-> "get_instrument_token", symbol |-> symbol,
                    provider |-> "none",
                    outcome |-> get_instrument_token(stock_details, symbol)]
    /\ UNCHANGED <<stock_details, cacheVars, mergeVars, calVars, anaVars, fnVars, raceVars>>

GetEarningsDates ==
    /\ \E symbol \in Symbols :
         lookup' = [op |-> "get_earnings_dates", symbol |-> symbol,
                    provider |-> "none",
                    outcome |-> get_earnings_dates(stock_details, symbol)]
    /\ UNCHANGED <<stock_details, cacheVars, mergeVars, calVars, anaVars, fnVars, raceVars>>

LoadCachedData ==
    /\ \E symbol \in Symbols :
         lookup' = [op |-> "load_cached_data", symbol |-> symbol,
                    provider |-> "none",
                    outcome |-> IF load_cached_data(cache).none THEN "None" ELSE "value"]
    /\ UNCHANGED <<stock_details, cacheVars, mergeVars, calVars, anaVars, fnVars, raceVars>>

\* fetch_ohlcv for a symbol when the provider has nothing to give.
FetchAbsent ==
    /\ lookup.op = "none"
    /\ \E symbol \in Symbols, kind \in ProviderKinds :
         LET provider == ProviderFor(stock_details, symbol, kind)
             out == fetch_ohlcv(cache, 1, MaxDate, FALSE, provider)
         IN /\ cache' = out.file
            /\ lookup' = [op |-> "fetch_ohlcv", symbol |-> symbol,
                          provider |-> provider.kind,
                          outcome |-> IF out.ret.none THEN "None" ELSE "value"]
    /\ UNCHANGED <<stock_details, last, mergeVars, calVars, anaVars, fnVars, raceVars>>

NextAbsence == GetInstrumentToken \/ GetEarningsDates \/ LoadCachedData \/ FetchAbsent

SpecAbsence == InitAbsence /\ [][NextAbsence]_vars

\* C19: a request for a symbol without an instrument token, without an
\* earnings-date entry, without a cached series, or whose provider yields
\* nothing while no cache exists, returns an unavailable value (None, or an
\* empty list) and raises no exception.
C19_DataAbsence ==
    /\ lookup.op = "get_instrument_token"
         => (lookup.symbol \notin instrument_tokens(stock_details)
                => lookup.outcome = "None")
    /\ lookup.op = "get_earnings_dates"
         => ((~\E e \in stock_details :
                  e.symbol = lookup.symbol /\ e.has_earnings_dates)
                => lookup.outcome \in {"None", "empty"})
    /\ lookup.op = "load_cached_data" => (cache.none => lookup.outcome = "None")
    /\ lookup.op = "fetch_ohlcv" => (cache.none => lookup.outcome = "None")
    /\ lookup.op # "none" => lookup.outcome # "ValueError"

----------------------------------------------------------------------------
(* Two callers refreshing the same symbol at once.  A caller reads the      *)
(* record (line 193), asks the provider and merges (211-220), then writes   *)
(* the record and returns (223-225); nothing orders the callers' steps.     *)

Callers == {1, 2}

IdleCaller ==
    [pc |-> "start", cached_df |-> NoDF, new_df |-> NoDF, merged_df |-> NoDF,
     ret |-> NoDF]

InitRace ==
    /\ cache \in {NoDF, DF(<<[date |-> 1, ohlcv |-> "ohlcv_1"]>>, REQUIRED_INDICATORS)}
    /\ procs = [p \in Callers |-> IdleCaller]
    /\ writes = <<>>
    /\ last = NoCall
    /\ NoConfig
    /\ NoFn
    /\ NoMerge
    /\ NoCalendar
    /\ NoAnalysis

\* cached_df = self._load_cached_data(symbol)
Load(p) ==
    /\ procs[p].pc = "start"
    /\ procs' = [procs EXCEPT ![p].pc = "loaded",
                              ![p].cached_df = load_cached_data(cache)]
    /\ UNCHANGED <<cache, writes, last, mergeVars, calVars, anaVars, fnVars, cfgVars>>

\* new_df = self._fetch_from_api(...); the early return when there is neither
\* new nor cached data; the merge and the indicators.
FetchAndMerge(p) ==
    /\ procs[p].pc = "loaded"
    /\ \E data \in CleanSeries :
         LET new_df == fetch_from_api([kind |-> "ok", data |-> data])
             cached_df == procs[p].cached_df
         IN procs' =
              IF new_df.none /\ cached_df.none
              THEN [procs EXCEPT ![p].pc = "done", ![p].new_df = new_df]
              ELSE [procs EXCEPT
                      ![p].pc = "merged",
                      ![p].new_df = new_df,
                      ![p].merged_df = calculate_indicators(merge_data(cached_df, new_df))]
    /\ UNCHANGED <<cache, writes, last, mergeVars, calVars, anaVars, fnVars, cfgVars>>

\* self._save_cached_data(symbol, merged_df) and the return.
SaveAndReturn(p) ==
    /\ procs[p].pc = "merged"
    /\ cache' = write_record(cache, procs[p].merged_df)
    /\ writes' = Append(writes, [by |-> p, frame |-> procs[p].merged_df])
    /\ procs' = [procs EXCEPT
                   ![p].pc = "done",
                   ![p].ret = filter_date_range(procs[p].merged_df, 1, MaxDate)]
    /\ UNCHANGED <<last, mergeVars, calVars, anaVars, fnVars, cfgVars>>

NextRace == \E p \in Callers : Load(p) \/ FetchAndMerge(p) \/ SaveAndReturn(p)

SpecRace == InitRace /\ [][NextRace]_vars

\* C20: the steps of two refreshes interleave freely, and the persisted record
\* is at every moment the frame of the last caller that wrote: what that caller
\* merged from the record it had read, whatever was written in between.
C20_LastWriterWins ==
    writes # <<>> =>
        LET w == writes[Len(writes)]
        IN /\ cache = save_cached_data(w.frame)
           /\ w.frame = procs[w.by].merged_df
           /\ w.frame = calculate_indicators(
                            merge_data(procs[w.by].cached_df, procs[w.by].new_df))

\* C20 witness: both callers have written and returned, and a bar that the
\* first writer merged and persisted is absent from the persisted record.
C20_Witness ==
    /\ \A p \in Callers : procs[p].pc = "done"
    /\ Len(writes) = 2
    /\ writes[1].by # writes[2].by
    /\ \E i \in 1..Len(writes[1].frame.rows) :
         writes[1].frame.rows[i].date \notin DatesOf(cache.rows)

----------------------------------------------------------------------------
(* The buffered fetch on an empty cache: DataFetcher.fetch_with_buffer.      *)
(* Dates are day numbers; the provider returns one bar for every trading day *)
(* of the range it is asked for.                                             *)

MaxShift == 6       \* the analysis starts on one of MaxShift + 1 successive days
MaxSpan == 2        \* the analysis window spans up to MaxSpan * 25 days

\* The calendars of the provider: a bar on every day, on five days of seven,
\* on every other day.
Calendars == {"daily", "weekdays", "alternate"}

IsTradingDay(d, calendar) ==
    CASE calendar = "daily" -> TRUE
      [] calendar = "weekdays" -> d % 7 \notin {0, 6}
      [] calendar = "alternate" -> d % 2 = 0

\* kite.historical_data(from_date, to_date, interval="day")
HistoricalData(calendar, from_date, to_date) ==
    SelectSeq([i \in 1..(to_date - from_date + 1) |->
                  [date |-> from_date + i - 1, ohlcv |-> "ohlcv_1"]],
              LAMBDA bar : IsTradingDay(bar.date, calendar))

AnalysisStarts ==
    (INDICATOR_BUFFER_DAYS + 51)..(INDICATOR_BUFFER_DAYS + 51 + MaxShift)

InitBuffer ==
    /\ \E calendar \in Calendars, analysis_start \in AnalysisStarts, span \in 0..MaxSpan :
         args = [fn |-> "fetch_with_buffer", calendar |-> calendar,
                 analysis_start |-> analysis_start,
                 analysis_end |-> analysis_start + 25 * span]
    /\ ret = NoRet
    /\ cache = NoDF
    /\ last = NoCall
    /\ NoConfig
    /\ NoRace
    /\ NoMerge
    /\ NoCalendar
    /\ NoAnalysis

\* fetch_with_buffer on the empty cache: the request reaches the provider, the
\* indicators are computed over what it returned and the series is persisted.
FetchWithBuffer ==
    /\ ret.op = "none"
    /\ LET from_date == buffer_start(args.analysis_start)
           provider == [kind |-> "ok",
                        data |-> HistoricalData(args.calendar, from_date, args.analysis_end)]
           r == fetch_with_buffer(cache, args.analysis_start, args.analysis_end, provider)
       IN /\ cache' = r.file
          /\ ret' = [op |-> "fetch_with_buffer",
                     from_date |-> from_date,
                     to_date |-> args.analysis_end,
                     asked |-> r.asked,
                     frame |-> r.ret,
                     SMA_200 |-> sma_defined(r.file.rows, SMA_MAJOR_PERIOD)]
    /\ UNCHANGED <<args, last, mergeVars, calVars, anaVars, cfgVars, raceVars>>

NextBuffer == FetchWithBuffer

SpecBuffer == InitBuffer /\ [][NextBuffer]_vars

\* The rows of the persisted series dated within the analysis window.
AnalysisRows ==
    {i \in 1..Len(cache.rows) : /\ cache.rows[i].date >= args.analysis_start
                                /\ cache.rows[i].date <= args.analysis_end}

\* C23 as stated: the request is [analysis_start - 150 days, analysis_end], and
\* after the refresh from an empty cache every bar of the analysis window
\* carries a defined 200-day SMA.
C23_AsStated ==
    ret.op = "fetch_with_buffer" =>
        /\ ret.asked
        /\ ret.from_date = args.analysis_start - 150
        /\ ret.to_date = args.analysis_end
        /\ \A i \in AnalysisRows : ret.SMA_200[i]

\* C23 as amended: the request is [analysis_start - 150 days, analysis_end];
\* at most 150 bars of the returned series precede analysis_start; a bar of the
\* analysis window carries a defined 200-day SMA exactly when at least 199 bars
\* of the returned series precede it, and the first bar of the analysis window
\* (the one no bar of the window precedes) never does.
C23_BufferedFetch ==
    ret.op = "fetch_with_buffer" =>
        /\ ret.asked
        /\ ret.from_date = args.analysis_start - 150
        /\ ret.to_date = args.analysis_end
        /\ ret.frame.rows = cache.rows
        /\ \A i \in 1..Len(cache.rows) :
             /\ cache.rows[i].date >= ret.from_date
             /\ cache.rows[i].date <= ret.to_date
        /\ Cardinality({i \in 1..Len(cache.rows) :
                           cache.rows[i].date < args.analysis_start}) <= 150
        /\ \A i \in AnalysisRows :
             /\ ret.SMA_200[i] <=> (i - 1 >= 199)
             /\ (i = 1 \/ cache.rows[i - 1].date < args.analysis_start) => ~ret.SMA_200[i]

\* C23 witness: a bar on every calendar day; 150 bars precede the first bar of
\* the analysis window, whose 200-day SMA is undefined, while the last bar of
\* the window, 50 days on, carries one.
C23_Witness ==
    /\ ret.op = "fetch_with_buffer"
    /\ args.calendar = "daily"
    /\ \E i \in AnalysisRows :
         /\ cache.rows[i].date = args.analysis_start
         /\ i = 151
         /\ ~ret.SMA_200[i]
    /\ \E i \in AnalysisRows :
         /\ cache.rows[i].date = args.analysis_end
         /\ ret.SMA_200[i]

----------------------------------------------------------------------------
(* A call of fetch_ohlcv followed at once by the same call, force_refresh    *)
(* false.  The provider answers the second call as it answered the first.    *)

RepeatCall ==
    /\ last.op = "fetch_ohlcv"
    /\ ret.op = "none"
    /\ LET out == Call(last.from_date, last.to_date, FALSE, last.provider)
       IN /\ cache' = out.file
          /\ ret' = [op |-> "repeat", before |-> cache, asked |-> out.asked,
                     computed |-> out.computed, wrote |-> out.wrote, frame |-> out.ret]
    /\ UNCHANGED <<args, last, mergeVars, calVars, anaVars, cfgVars, raceVars>>

NextRepeat == FetchOhlcv \/ RepeatCall

SpecRepeat == Init /\ [][NextRepeat]_vars

\* The first call asked the provider, the provider returned bars and the
\* merged series was persisted; the call was then repeated.
RepeatedAfterRefresh ==
    /\ ret.op = "repeat"
    /\ last.asked
    /\ last.provider.kind = "ok"
    /\ last.provider.data # <<>>
    /\ last.wrote

\* C25 as stated: after a call in which the provider returned bars and the
\* merged series was persisted, the same call repeated at once with
\* force_refresh false does not ask the provider, whatever from_date and
\* to_date are.
C25_AsStated == RepeatedAfterRefresh => ~ret.asked

\* C25 as amended: the repeated call is served without asking the provider
\* exactly when the persisted series begins on or before from_date and ends on
\* or after to_date; it is when the provider returned a bar dated from_date and
\* a bar dated to_date, and the call then leaves the record as it was, computes
\* nothing and returns what the first call returned.
C25_RepeatedCall ==
    RepeatedAfterRefresh =>
        /\ ~ret.asked <=> (/\ MinDate(ret.before.rows) <= last.from_date
                           /\ MaxDateOf(ret.before.rows) >= last.to_date)
        /\ {last.from_date, last.to_date} \subseteq DatesOf(last.provider.data) =>
             /\ ~ret.asked
             /\ ~ret.computed
             /\ ~ret.wrote
             /\ cache = ret.before
             /\ ret.frame = last.ret

\* C25 witness: a first call on an empty cache for a range of more than one
\* day whose two ends the provider returned bars for, and its repetition served
\* from the record.
C25_Witness ==
    /\ RepeatedAfterRefresh
    /\ last.before.none
    /\ last.from_date < last.to_date
    /\ {last.from_date, last.to_date} \subseteq DatesOf(last.provider.data)
    /\ ~ret.asked
    /\ ret.frame.rows = cache.rows

----------------------------------------------------------------------------
(* Analyses run one after another through perform_analysis.  Dates are day  *)
(* numbers; the record holds a bar every tenth day.                          *)

Today == 400            \* the day of the analyses
MaxAnalyses == 2        \* analyses run in a row

\* Bars on first_day, first_day + 10, ... up to last_day.
EveryTenthDay(first_day, last_day) ==
    [i \in 1..((last_day - first_day) \div 10 + 1) |->
        [date |-> first_day + 10 * (i - 1), ohlcv |-> "ohlcv_1"]]

\* What the provider may return for a request [from_date, to_date]: nothing,
\* a bar on its first day, a bar on its last day, both, or a bar every tenth
\* day.
ProviderAnswers(from_date, to_date) ==
    {[kind |-> "error", data |-> <<>>]} \cup
    {[kind |-> "ok", data |-> data] :
        data \in {<<[date |-> from_date, ohlcv |-> "ohlcv_2"]>>,
                  <<[date |-> to_date, ohlcv |-> "ohlcv_2"]>>,
                  <<[date |-> from_date, ohlcv |-> "ohlcv_2"],
                    [date |-> to_date, ohlcv |-> "ohlcv_2"]>>,
                  EveryTenthDay(from_date, to_date)}}

\* Anchor dates: before the record, inside it, near its end, after today.
PipelineAnchors == {10, Today - 200, Today - 30, Today + 5}

InitPipeline ==
    /\ cache \in {NoDF,
                  DF(EveryTenthDay(Today - 395, Today - 5), REQUIRED_INDICATORS),
                  DF(EveryTenthDay(Today - 95, Today - 25), LegacyCols)}
    /\ args = [fn |-> "perform_analysis", count |-> 0]
    /\ ret = NoRet
    /\ last = NoCall
    /\ NoConfig
    /\ NoRace
    /\ NoMerge
    /\ NoCalendar
    /\ NoAnalysis

PerformAnalysis ==
    /\ args.count < MaxAnalyses
    /\ \E anchor \in PipelineAnchors,
          first \in (IF get_trading_days(cache) = <<>>
                     THEN ProviderAnswers(Today - DEFAULT_HISTORY_DAYS, Today)
                     ELSE {[kind |-> "error", data |-> <<>>]}) :
         LET days == IF get_trading_days(cache) = <<>>
                     THEN FrameDates(fetch_from_api(first).rows)
                     ELSE get_trading_days(cache)
             w == resolve_windows(anchor, days)
         IN \E second \in ProviderAnswers(buffer_start(w.obs_start), w.obs_end) :
              LET out == perform_analysis(cache, anchor, Today, first, second)
              IN /\ cache' = out.file
                 /\ ret' = [op |-> "perform_analysis",
                            had_cache |-> get_trading_days(cache) # <<>>,
                            requests |-> out.requests,
                            cache_last |-> out.cache_last,
                            windows |-> out.windows,
                            df |-> out.df]
    /\ args' = [args EXCEPT !.count = @ + 1]
    /\ UNCHANGED <<last, mergeVars, calVars, anaVars, cfgVars, raceVars>>

NextPipeline == PerformAnalysis

SpecPipeline == InitPipeline /\ [][NextPipeline]_vars

\* C26: when the window set of an analysis is resolved on a non-empty record,
\* the observation end is the last date of the record, the buffered fetch asks
\* the provider for no date after it, and after the analysis the last date of
\* the record is no later than it was.
C26_NoForwardExtension ==
    (ret.op = "perform_analysis" /\ ret.cache_last # NoneDate) =>
        /\ ret.windows.obs_end = ret.cache_last
        /\ \A k \in 1..Len(ret.requests) :
             (ret.had_cache \/ k > 1) => ret.requests[k].to_date <= ret.cache_last
        /\ ~cache.none
        /\ MaxDateOf(cache.rows) <= ret.cache_last

\* C26 witness: the second analysis on a record that ends before today; the
\* buffered fetch went to the provider, which returned a bar for the last day
\* asked for, and the record still ends where it did.
C26_Witness ==
    /\ ret.op = "perform_analysis"
    /\ args.count = 2
    /\ ret.had_cache
    /\ ret.cache_last < Today
    /\ Len(ret.requests) = 1
    /\ ret.requests[1].to_date = ret.cache_last
    /\ \E i \in 1..Len(cache.rows) :
         cache.rows[i] = [date |-> ret.cache_last, ohlcv |-> "ohlcv_2"]
    /\ MaxDateOf(cache.rows) = ret.cache_last

----------------------------------------------------------------------------
(* The window set: EarningsData.get_analysis_windows on calendars of up to   *)
(* MaxWindowDays trading days, every second day a trading day.               *)

MaxWindowDays == 45

\* The orders a caller may list the calendar in; "repeated" lists every
\* trading day twice.
CalendarOrders == {"ascending", "descending", "rotated", "repeated"}

CalendarOf(n, order) ==
    [i \in 1..n |->
        CASE order = "ascending" -> 2 * i
          [] order = "descending" -> 2 * (n + 1 - i)
          [] order = "rotated" -> 2 * (((i + (n \div 2)) % n) + 1)
          [] order = "repeated" -> 2 * ((i + 1) \div 2)]

InitWindows ==
    /\ \E n \in {1, 2, 12, 25, MaxWindowDays}, order \in CalendarOrders :
         /\ trading_days = CalendarOf(n, order)
         /\ earnings_date \in 1..(2 * n + 3)
    /\ lastResolve = NoResolve
    /\ cache = NoDF
    /\ last = NoCall
    /\ NoConfig
    /\ NoRace
    /\ NoFn
    /\ NoMerge
    /\ NoAnalysis

NextWindows == GetAnalysisWindows

SpecWindows == InitWindows /\ [][NextWindows]_vars

\* The dates of the window set, from the observation start to the observation
\* end.
WindowChain ==
    <<window_set.obs_start, window_set.acc_start, window_set.acc_end,
      window_set.t_minus_1>>
    \o [k \in 1..7 |-> window_set.t_plus[k - 1]]
    \o <<window_set.t_plus[10], window_set.t_plus[20], window_set.obs_end>>

\* C29: for a non-empty calendar and any anchor date, every date of the window
\* set is a trading day of the calendar, the dates are in the order
\* observation start, accumulation start, accumulation end, T-1, T+0 .. T+6,
\* T+10, T+20, observation end, each no later than the next, and the
\* observation end is the last trading day.
C29_WindowOrdering ==
    window_set # NoWindows =>
        /\ \A i \in 1..Len(WindowChain) : WindowChain[i] \in DaySet(trading_days)
        /\ \A i \in 1..(Len(WindowChain) - 1) : WindowChain[i] <= WindowChain[i + 1]
        /\ \A d \in DaySet(trading_days) : d <= window_set.obs_end

\* C29 witness: a calendar listed latest day first and an anchor on a day
\* between two trading days, far enough from both ends that no offset is
\* clamped: the dates of the window set strictly ascend up to T+20, which lies
\* before the observation end.
C29_Witness ==
    /\ window_set # NoWindows
    /\ Len(trading_days) > 1
    /\ trading_days[1] > trading_days[Len(trading_days)]
    /\ earnings_date \notin DaySet(trading_days)
    /\ \A i \in 1..(Len(WindowChain) - 1) : WindowChain[i] < WindowChain[i + 1]
    /\ window_set.acc_start = window_set.obs_start + 20

====
